---------------------------- MODULE Spec2Model ----------------------------
(***************************************************************************)
(* BenchmarkHub: the client-side state of src/App.tsx (the current App,    *)
(* lines 608-1569), its retrieval service src/services/geminiService.ts    *)
(* and the DatasetCard component (src/unnamed/part_000).                   *)
(*                                                                         *)
(* Strings are sequences of one-character strings, so that toLowerCase,    *)
(* includes, trim, localeCompare, split and parseCSVLine are computed.     *)
(* Surrogate ids are sequences of chunks: a template literal such as       *)
(* `saved-${Date.now()}-${random}` is <<"saved-", ToString(now), "-", r>>. *)
(***************************************************************************)
EXTENDS Integers, Sequences, FiniteSets, TLC

(***************************************************************************)
(* Bounds of the model.                                                    *)
(***************************************************************************)
MaxNow == 2          \* handlers that read Date.now() in one run
MaxSaved == 4        \* the library is not grown beyond this many records
MaxSelected == 1     \* a card is not selected while the selection holds this many keys
MaxLists == 1        \* named lists created in one run that exist at once
MaxReaders == 1      \* file reads in flight at once
MaxCalls == 2        \* searches submitted in one run
MaxTicks == 2        \* progress advances of one search

(***************************************************************************)
(* JavaScript values.                                                      *)
(***************************************************************************)
\* the value `undefined`: no string, since strings hold one-character items
Undefined == <<"undefined">>

\* `x || dflt` on an optional string: undefined and '' are falsy
OrElse(x, dflt) == IF x = Undefined \/ x = <<>> THEN dflt ELSE x

UpperCase == <<"A","B","C","D","E","F","G","H","I","J","K","L","M",
               "N","O","P","Q","R","S","T","U","V","W","X","Y","Z">>
LowerCase == <<"a","b","c","d","e","f","g","h","i","j","k","l","m",
               "n","o","p","q","r","s","t","u","v","w","x","y","z">>

\* the characters the model writes strings with
Alphabet == {UpperCase[i] : i \in 1..26} \cup {LowerCase[i] : i \in 1..26} \cup {"0","1","2","3","4","5","6","7","8","9"} \cup {" ", "-", ",", ".", "\"", "\n", "\r", "\t", "/"}

\* String.prototype.toLowerCase, one character
LowerChar == [c \in Alphabet |-> IF \E i \in 1..26 : UpperCase[i] = c THEN LowerCase[CHOOSE i \in 1..26 : UpperCase[i] = c] ELSE c]

\* String.prototype.toLowerCase
ToLowerCase(s) == [i \in 1..Len(s) |-> LowerChar[s[i]]]

\* String.prototype.includes
Includes(s, sub) ==
    \E i \in 0..(Len(s) - Len(sub)) : SubSeq(s, i + 1, i + Len(sub)) = sub

WhiteSpace == {" ", "\t", "\r", "\n"}

RECURSIVE TrimStart(_)
TrimStart(s) ==
    IF s # <<>> /\ Head(s) \in WhiteSpace THEN TrimStart(Tail(s)) ELSE s

RECURSIVE TrimEnd(_)
TrimEnd(s) ==
    IF s # <<>> /\ s[Len(s)] \in WhiteSpace
    THEN TrimEnd(SubSeq(s, 1, Len(s) - 1)) ELSE s

\* String.prototype.trim
Trim(s) == TrimEnd(TrimStart(s))

\* collation order of the characters the model uses (blank, punctuation,
\* digits, letters), as String.prototype.localeCompare orders them
Collation == <<" ", "-", ",", ".", "\"", "0","1","2","3","4","5","6","7","8","9">>
             \o LowerCase

CharRank == [c \in Alphabet |-> IF \E i \in 1..Len(Collation) : Collation[i] = c THEN CHOOSE i \in 1..Len(Collation) : Collation[i] = c ELSE 0]

\* the comparison of a and b from their i-th characters on
RECURSIVE LocaleCompareFrom(_, _, _)
LocaleCompareFrom(a, b, i) ==
    IF i > Len(a) /\ i > Len(b) THEN 0
    ELSE IF i > Len(a) THEN -1
    ELSE IF i > Len(b) THEN 1
    ELSE IF CharRank[a[i]] < CharRank[b[i]] THEN -1
    ELSE IF CharRank[a[i]] > CharRank[b[i]] THEN 1
    ELSE LocaleCompareFrom(a, b, i + 1)

\* String.prototype.localeCompare on lower-cased strings: -1, 0 or 1
LocaleCompare(a, b) == LocaleCompareFrom(a, b, 1)

\* the items of an array as a set
Range(s) == {s[i] : i \in 1..Len(s)}

\* Array.prototype.includes
ArrIncludes(s, x) == \E i \in 1..Len(s) : s[i] = x

(***************************************************************************)
(* BenchmarkDataset (src/types.ts).                                        *)
(***************************************************************************)
Dataset(id, title, source, authors, year, paperLink, githubLink, itemCount, specs, description, groundingSources) ==
    [id |-> id, title |-> title, source |-> source, authors |-> authors,
     year |-> year, paperLink |-> paperLink, githubLink |-> githubLink,
     itemCount |-> itemCount, specs |-> specs, description |-> description,
     groundingSources |-> groundingSources]

\* the paper links of an array of datasets, in order
Links(items) == [i \in 1..Len(items) |-> items[i].paperLink]

(***************************************************************************)
(* Data the runs draw from.  String literals of the source are shortened.  *)
(***************************************************************************)
ArXiv == <<"a","r","X","i","v">>
Other == <<"O","t","h","e","r">>
All == <<"A","l","l">>

LinkMed == <<"u","1">>
LinkMMLU == <<"u","2">>
LinkSWE == <<"u","3">>
LinkNew == <<"u","4">>

FALLBACK_DATASETS ==
    << Dataset(<<"fb-1">>, <<"M","e","d">>, ArXiv, << <<"J","Y">>, <<"R","S">> >>, <<"2","0","2","1">>, LinkMed, Undefined, <<"7","0","8">>, <<"2","D">>, <<"i","m","g">>, Undefined),
       Dataset(<<"fb-2">>, <<"M","M","L","U">>, ArXiv, << <<"D","H">> >>, <<"2","0","2","0">>, LinkMMLU, Undefined, <<"1","5">>, <<"M","C">>, <<"s","u","b">>, Undefined),
       Dataset(<<"fb-3">>, <<"S","W","E">>, ArXiv, << <<"C","J">> >>, <<"2","0","2","3">>, LinkSWE, Undefined, <<"2","2">>, <<"C","D">>, <<"g","i","t">>, Undefined) >>

\* what the model returns for a query (response.text parsed): the first item
\* names the paper of fb-1 under another title, the last two share a link
RawResponse ==
    << [title |-> <<"m","e","d","2">>, source |-> ArXiv, paperLink |-> LinkMed, description |-> <<"n","e","w">>, year |-> <<"2","0","2","2">>],
       [title |-> <<"N","e","w">>, paperLink |-> LinkNew, description |-> <<"i","m","g">>, year |-> <<"9","9","9">>],
       [title |-> <<"D","u","p">>, source |-> Other, paperLink |-> LinkNew, description |-> <<"d">>] >>

GroundingChunks == << [web |-> [uri |-> <<"w">>, title |-> <<"W">>]], [web |-> [title |-> <<"n","o">>]] >>

\* an optional property of a raw object
Prop(item, f) == IF f \in DOMAIN item THEN item[f] ELSE Undefined

\* groundingChunks.map(...).filter(s => s.uri)
GroundingSources(chunks) ==
    LET src(c) == [uri |-> Prop(Prop(c, "web"), "uri"), title |-> Prop(Prop(c, "web"), "title")]
        mapped == [i \in 1..Len(chunks) |-> src(chunks[i])]
    IN  SelectSeq(mapped, LAMBDA g : g.uri # Undefined /\ g.uri # <<>>)

\* rawData.map((item, index) => ({...item, id, source: item.source || 'Other',
\* groundingSources})), index counted from 0
MapRawData(rawData, t, chunks) ==
    [i \in 1..Len(rawData) |->
        Dataset(<<ToString(t), "-", ToString(i - 1)>>,
                Prop(rawData[i], "title"),
                OrElse(Prop(rawData[i], "source"), Other),
                Prop(rawData[i], "authors"),
                Prop(rawData[i], "year"),
                Prop(rawData[i], "paperLink"),
                Prop(rawData[i], "githubLink"),
                Prop(rawData[i], "itemCount"),
                Prop(rawData[i], "specs"),
                Prop(rawData[i], "description"),
                GroundingSources(chunks))]

(***************************************************************************)
(* State of the App component.                                             *)
(***************************************************************************)
VARIABLES
    savedDatasets,               \* useState: the saved library
    recommendedDatasets,         \* useState: the curated feed
    customLists,                 \* useState: the named lists
    activeListId,                \* useState: 'all' or a list id
    activeTab,                   \* useState: 'saved' | 'recommend' | 'discover'
    selectedForComparisonLinks,  \* useState: the selection
    filterQuery,                 \* useState: free-text filter
    sourceFilter,                \* useState: source-type filter
    sortConfig,                  \* useState: {field, order}
    searchState,                 \* useState: {isSearching, results, error, progress, status}
    query,                       \* useState: the search input
    searchHistory,               \* useState: the query history
    settings,                    \* useState: {model}
    progressInterval,            \* useRef: the id setInterval returned last, or Null
    abortControllerRef,          \* useRef: the AbortController made last, or Null
    timers,                      \* the intervals that are live in the browser
    calls,                       \* searchBenchmarkDatasets calls that have not settled
    started,                     \* history: number of searches submitted so far
    cancelled,                   \* history: the searches the user cancelled
    readers,                     \* FileReaders whose onload has not run yet
    now,                         \* Date.now()
    displayItems,                \* useMemo: the records the active view shows
    downloads,                   \* the file the browser saved last (with the library it was made of), or none
    storage,                     \* localStorage: the four snapshots, each Null or <<value>>
    isInitialized,               \* useRef: the init effect has run to its end
    lastOp                       \* history: the handler that ran last, with what it saw

vars == <<savedDatasets, recommendedDatasets, customLists, activeListId, activeTab, selectedForComparisonLinks, filterQuery, sourceFilter, sortConfig, searchState, query, searchHistory, settings, progressInterval, abortControllerRef, timers, calls, started, cancelled, readers, now, displayItems, downloads, storage, isInitialized, lastOp>>

viewVars == <<activeListId, activeTab, filterQuery, sourceFilter, sortConfig>>

\* what only the retrieval session writes
sessionVars == <<query, searchHistory, settings, progressInterval, abortControllerRef, timers, calls, started, cancelled>>

\* a ref that holds null is the empty sequence, one that holds x is <<x>>
Null == <<>>

ListAll == <<"a","l","l">>

\* what the user types into prompt()
ListNames == {<<>>, <<"A">>}

\* Math.random().toString(36).substr(2, 5): the j-th draw of a handler; draws
\* of one handler differ, and Date.now() differs between handlers
Random(j) == "r" \o ToString(j)

(***************************************************************************)
(* View Projector.                                                         *)
(***************************************************************************)
\* [d.title, d.description].join(' '): join writes undefined as ''
TitleAndDescription(d) ==
    (IF d.title = Undefined THEN <<>> ELSE d.title) \o <<" ">> \o (IF d.description = Undefined THEN <<>> ELSE d.description)

\* (a[sortConfig.field] || '').toString().toLowerCase()
SortKey(d, field) == ToLowerCase(OrElse(d[field], <<>>))

\* the comparator of filteredAndSorted's sort
SortCompare(a, b, cfg) ==
    IF cfg.order = "asc"
    THEN LocaleCompare(SortKey(a, cfg.field), SortKey(b, cfg.field))
    ELSE LocaleCompare(SortKey(b, cfg.field), SortKey(a, cfg.field))

\* an insertion that puts x in front of the items of equal key
RECURSIVE InsertSortedUnstable(_, _, _)
InsertSortedUnstable(sorted, x, cfg) ==
    IF sorted = <<>> THEN <<x>>
    ELSE IF SortCompare(sorted[Len(sorted)], x, cfg) < 0 THEN Append(sorted, x)
    ELSE Append(InsertSortedUnstable(SubSeq(sorted, 1, Len(sorted) - 1), x, cfg), sorted[Len(sorted)])

\* Array.prototype.sort is stable: x goes behind every item that is not after it
RECURSIVE InsertSorted(_, _, _)
InsertSorted(sorted, x, cfg) ==
    IF sorted = <<>> THEN <<x>>
    ELSE IF SortCompare(sorted[Len(sorted)], x, cfg) <= 0 THEN Append(sorted, x)
    ELSE Append(InsertSorted(SubSeq(sorted, 1, Len(sorted) - 1), x, cfg), sorted[Len(sorted)])

RECURSIVE StableSort(_, _)
StableSort(items, cfg) ==
    IF items = <<>> THEN <<>>
    ELSE InsertSorted(StableSort(SubSeq(items, 1, Len(items) - 1), cfg), items[Len(items)], cfg)

filteredAndSorted(items, fq, cfg) ==
    LET lq == ToLowerCase(fq)
        result == IF Trim(fq) # <<>>
                  THEN SelectSeq(items, LAMBDA d : Includes(ToLowerCase(TitleAndDescription(d)), lq))
                  ELSE items
    IN  StableSort(result, cfg)

DisplayItemsOf(tab, listId, saved, recommended, results, lists, srcFilter, fq, cfg) ==
    LET items == IF tab = "discover" THEN results
                 ELSE IF tab = "recommend" THEN recommended
                 ELSE IF listId = ListAll THEN saved
                 ELSE IF \E i \in 1..Len(lists) : lists[i].id = listId
                      THEN LET activeList == lists[CHOOSE i \in 1..Len(lists) : lists[i].id = listId /\ \A j \in 1..(i - 1) : lists[j].id # listId]
                           IN  SelectSeq(saved, LAMBDA d : ArrIncludes(activeList.datasetIds, d.id))
                      ELSE <<>>
        bySource == IF tab = "discover" /\ srcFilter # All
                    THEN SelectSeq(items, LAMBDA d : d.source = srcFilter)
                    ELSE items
    IN  filteredAndSorted(bySource, fq, cfg)

\* what the useMemo of displayItems computes from the state
Rendered == DisplayItemsOf(activeTab, activeListId, savedDatasets, recommendedDatasets, searchState.results, customLists, sourceFilter, filterQuery, sortConfig)

\* the dependencies of the useMemo (filteredAndSorted stands for its own:
\* filterQuery and sortConfig); customLists is not among them
MemoDeps == <<activeTab, activeListId, savedDatasets, recommendedDatasets, searchState.results, sourceFilter, filterQuery, sortConfig>>

\* the handlers that set a dependency to a new array or object whatever it holds
NewArrayHandlers == {"handleSearch", "resolve", "reject", "handleResetLibrary", "handleRemove", "setSortConfig"}

\* the render that follows a handler recomputes displayItems when a
\* dependency has changed, and keeps the memoized value otherwise
Render ==
    displayItems' = IF MemoDeps' = MemoDeps /\ lastOp'.name \notin NewArrayHandlers
                    THEN displayItems
                    ELSE DisplayItemsOf(activeTab', activeListId', savedDatasets', recommendedDatasets', searchState'.results, customLists', sourceFilter', filterQuery', sortConfig')

\* the four persistence effects after a handler: a snapshot is written when
\* its state has changed and the init effect has finished
Persist ==
    /\ isInitialized' = isInitialized
    /\ storage' = IF isInitialized
                  THEN [saved    |-> IF savedDatasets' # savedDatasets THEN <<savedDatasets'>> ELSE storage.saved,
                        lists    |-> IF customLists' # customLists THEN <<customLists'>> ELSE storage.lists,
                        settings |-> IF settings' # settings THEN <<settings'>> ELSE storage.settings,
                        history  |-> IF searchHistory' # searchHistory THEN <<searchHistory'>> ELSE storage.history]
                  ELSE storage

\* the snapshots in storage once the state has been loaded and written: a
\* list, settings or history snapshot exists when its state was ever changed
StorageOf(saved, lists, appSettings, history) ==
    [saved    |-> <<saved>>,
     lists    |-> IF lists = <<>> THEN Null ELSE <<lists>>,
     settings |-> IF appSettings = [model |-> "gemini-3-pro-preview"] THEN Null ELSE <<appSettings>>,
     history  |-> IF history = <<>> THEN Null ELSE <<history>>]

isSaved(link) == \E i \in 1..Len(savedDatasets) : savedDatasets[i].paperLink = link

(***************************************************************************)
(* Collection Store.                                                       *)
(***************************************************************************)
\* the updater of handleSave: prev => prev.find(same paperLink) ? prev : [...prev, {...dataset, id}]
\* a save that does not look for the paper link in the library
SaveUpdaterAlways(prev, dataset, id) == Append(prev, [dataset EXCEPT !.id = id])

SaveUpdater(prev, dataset, id) ==
    IF \E i \in 1..Len(prev) : prev[i].paperLink = dataset.paperLink
    THEN prev
    ELSE Append(prev, [dataset EXCEPT !.id = id])

\* handleSave's id for the j-th save of the handler running at time t
SavedId(t, j) == <<"saved-", ToString(t), "-", Random(j)>>

\* items.forEach(item => handleSave(item)) at time t, the updaters applied in order
RECURSIVE SaveEach(_, _, _, _)
SaveEach(prev, items, t, j) ==
    IF items = <<>> THEN prev
    ELSE SaveEach(SaveUpdater(prev, Head(items), SavedId(t, j)), Tail(items), t, j + 1)

\* the two updaters of handleRemove
RemoveFromLibrary(prev, id) == SelectSeq(prev, LAMBDA d : d.id # id)

\* a removal that leaves the named lists alone
RemoveFromListsKept(prev, id) == prev

RemoveFromLists(prev, id) ==
    [i \in 1..Len(prev) |-> [prev[i] EXCEPT !.datasetIds = SelectSeq(prev[i].datasetIds, LAMBDA did : did # id)]]

\* DatasetCard.handleAction on a card of the discover or recommend grid:
\* isSaved ? onRemove?.(id) (no onRemove is passed there) : onSave(dataset)
handleSave(k) ==
    /\ activeTab # "saved"
    /\ k \in 1..Len(displayItems)
    /\ ~isSaved(displayItems[k].paperLink)
    /\ now < MaxNow /\ Len(savedDatasets) < MaxSaved
    /\ savedDatasets' = SaveUpdater(savedDatasets, displayItems[k], SavedId(now, 1))
    /\ now' = now + 1
    /\ lastOp' = [name |-> "handleSave"]
    /\ UNCHANGED sessionVars
    /\ UNCHANGED <<recommendedDatasets, customLists, selectedForComparisonLinks, searchState, readers, downloads>>
    /\ UNCHANGED viewVars
    /\ Render
    /\ Persist

\* DatasetCard.handleAction on a card of the library grid (isSaved = true)
handleRemove(k) ==
    /\ activeTab = "saved"
    /\ k \in 1..Len(displayItems)
    /\ LET id == displayItems[k].id
       IN  /\ savedDatasets' = RemoveFromLibrary(savedDatasets, id)
           /\ customLists' = RemoveFromLists(customLists, id)
           /\ lastOp' = [name |-> "handleRemove", id |-> id, link |-> displayItems[k].paperLink, selected |-> ArrIncludes(selectedForComparisonLinks, displayItems[k].paperLink), listed |-> \E l \in 1..Len(customLists) : ArrIncludes(customLists[l].datasetIds, id)]
    /\ UNCHANGED sessionVars
    /\ UNCHANGED <<recommendedDatasets, selectedForComparisonLinks, searchState, readers, downloads, now>>
    /\ UNCHANGED viewVars
    /\ Render
    /\ Persist


(***************************************************************************)
(* Import/Export Codec.                                                    *)
(***************************************************************************)
\* text.split(/\r?\n/): the text up to the first line break, then the rest
RECURSIVE SplitLines(_)
SplitLines(text) ==
    IF \E i \in 1..Len(text) : text[i] = "\n"
    THEN LET n == CHOOSE i \in 1..Len(text) : text[i] = "\n" /\ \A j \in 1..(i - 1) : text[j] # "\n"
             end == IF n > 1 /\ text[n - 1] = "\r" THEN n - 2 ELSE n - 1
         IN  <<SubSeq(text, 1, end)>> \o SplitLines(SubSeq(text, n + 1, Len(text)))
    ELSE <<text>>

\* the loop of parseCSVLine from position i on
RECURSIVE ParseCSVFrom(_, _, _, _, _)
ParseCSVFrom(line, i, result, current, inQuotes) ==
    IF i > Len(line) THEN Append(result, current)
    ELSE IF line[i] = "\""
         THEN IF inQuotes /\ i + 1 <= Len(line) /\ line[i + 1] = "\""
              THEN ParseCSVFrom(line, i + 2, result, Append(current, "\""), inQuotes)
              ELSE ParseCSVFrom(line, i + 1, result, current, ~inQuotes)
    ELSE IF line[i] = "," /\ ~inQuotes
         THEN ParseCSVFrom(line, i + 1, Append(result, current), <<>>, inQuotes)
    ELSE ParseCSVFrom(line, i + 1, result, Append(current, line[i]), inQuotes)

parseCSVLine(line) == ParseCSVFrom(line, 1, <<>>, <<>>, FALSE)

\* String.prototype.split(',')
RECURSIVE SplitComma(_, _)
SplitComma(text, current) ==
    IF text = <<>> THEN <<current>>
    ELSE IF Head(text) = "," THEN <<current>> \o SplitComma(Tail(text), <<>>)
    ELSE SplitComma(Tail(text), Append(current, Head(text)))

\* cols[2].split(',').map(a => a.trim()).filter(a => a)
ParseAuthors(col) ==
    LET parts == SplitComma(col, <<>>)
        trimmed == [i \in 1..Len(parts) |-> Trim(parts[i])]
    IN  SelectSeq(trimmed, LAMBDA a : a # <<>>)

\* cols[k], k counted from 0
Col(cols, k) == IF k + 1 <= Len(cols) THEN cols[k + 1] ELSE Undefined

ImportedId(t, i) == <<"imported-", ToString(t), "-", ToString(i), "-", Random(i)>>

\* the record handleImport builds from line i (counted from 0) of the file
CsvRecord(cols, t, i) ==
    Dataset(ImportedId(t, i), Col(cols, 0), OrElse(Col(cols, 1), Other), ParseAuthors(Col(cols, 2)), Col(cols, 3), Col(cols, 4), OrElse(Col(cols, 5), Undefined), Col(cols, 6), Col(cols, 7), Col(cols, 8), Undefined)

\* the for loop of handleImport's onload over lines[i..]: lines is 1-based
\* here, so lines[i + 1] is the source's lines[i]
RECURSIVE CsvNewDatasets(_, _, _, _)
CsvNewDatasets(lines, i, existingLinks, t) ==
    IF i >= Len(lines) THEN <<>>
    ELSE LET line == lines[i + 1]
             cols == parseCSVLine(line)
             rest == CsvNewDatasets(lines, i + 1, existingLinks, t)
         IN  IF Trim(line) = <<>> THEN rest
             ELSE IF Len(cols) < 5 THEN rest
             ELSE IF Col(cols, 4) \in existingLinks THEN rest
             ELSE <<CsvRecord(cols, t, i)>> \o rest

\* what reader.onload of handleImport appends: nothing when the file has no
\* second line
\* an import that takes the first line for a row
CsvImportedHeaderless(text, existingLinks, t) == CsvNewDatasets(SplitLines(text), 0, existingLinks, t)

CsvImported(text, existingLinks, t) ==
    LET lines == SplitLines(text)
    IN  IF Len(lines) < 2 THEN <<>> ELSE CsvNewDatasets(lines, 1, existingLinks, t)

ImportedJsonId(t, index) == <<"imported-json-", ToString(t), "-", ToString(index), "-", Random(index)>>

\* !x for a property of a parsed JSON object
Falsy(x) == x = Undefined \/ x = <<>>

\* {...item, id}
JsonRecord(item, t, index) ==
    Dataset(ImportedJsonId(t, index), Prop(item, "title"), Prop(item, "source"), Prop(item, "authors"), Prop(item, "year"), Prop(item, "paperLink"), Prop(item, "githubLink"), Prop(item, "itemCount"), Prop(item, "specs"), Prop(item, "description"), Prop(item, "groundingSources"))

\* data.forEach((item, index) => ...) of handleImportJSON from 1-based position k
RECURSIVE JsonNewDatasets(_, _, _, _)
JsonNewDatasets(data, k, existingLinks, t) ==
    IF k > Len(data) THEN <<>>
    ELSE LET item == data[k]
             rest == JsonNewDatasets(data, k + 1, existingLinks, t)
         IN  IF Falsy(Prop(item, "title")) \/ Falsy(Prop(item, "paperLink")) THEN rest
             ELSE IF Prop(item, "paperLink") \in existingLinks THEN rest
             ELSE <<JsonRecord(item, t, k - 1)>> \o rest

\* a JSON file is what JSON.parse makes of it: a failure (parses = FALSE), a
\* value that is no array (isArray = FALSE) or an array of objects
JsonImported(file, existingLinks, t) ==
    IF ~file.parses \/ ~file.isArray THEN <<>>
    ELSE JsonNewDatasets(file.data, 1, existingLinks, t)

\* several texts in a row
RECURSIVE Cat(_)
Cat(parts) == IF parts = <<>> THEN <<>> ELSE Head(parts) \o Cat(Tail(parts))

LinkCsv == <<"u","5">>
LinkJson == <<"u","6">>

CsvHeader == <<"T",",","S",",","A",",","Y",",","L">>

\* "c1",,"A, B",,u5,,,,"d""q"
CsvRowQuoted == Cat(<< <<"\"","c","1","\"",",",",">>, <<"\"","A",","," ","B","\"",",",",">>, LinkCsv, <<",",",",",",",">>, <<"\"","d","\"","\"","q","\"">> >>)

\* c2,,,,u5 : the same link again, under another title and without the optional columns
CsvRowSameLink == Cat(<< <<"c","2",",",",",",",",">>, LinkCsv >>)

\* m,,,,u1 : the link of fb-1
CsvRowMed == Cat(<< <<"m",",",",",",",",">>, LinkMed >>)

\* x,y : too few columns
CsvRowShort == <<"x",",","y">>

CsvFiles ==
    { Cat(<<CsvHeader, <<"\n">>, CsvRowQuoted, <<"\r","\n">>, CsvRowSameLink, <<"\n">>, CsvRowShort, <<"\n">> >>),
      Cat(<<CsvHeader, <<"\n">>, CsvRowMed, <<"\n">>, <<" ">>, <<"\n">>, CsvRowSameLink >>),
      CsvHeader }

JsonFiles ==
    { [parses |-> FALSE],
      [parses |-> TRUE, isArray |-> FALSE],
      [parses |-> TRUE, isArray |-> TRUE,
       data |-> << [id |-> <<"fb-1">>, title |-> <<"j","1">>, paperLink |-> LinkJson, description |-> <<"d">>],
                   [title |-> <<"j","2">>, paperLink |-> LinkJson],
                   [title |-> <<>>, paperLink |-> LinkNew],
                   [title |-> <<"m">>, paperLink |-> LinkMed] >>] }

\* handleImport / handleImportJSON: the FileReader is started; its onload
\* closes over the savedDatasets of the render the handler belongs to
handleImport(file) ==
    /\ activeTab = "saved"
    /\ Len(readers) < MaxReaders
    /\ readers' = Append(readers, [kind |-> "csv", file |-> file, savedDatasets |-> savedDatasets])
    /\ lastOp' = [name |-> "handleImport"]
    /\ UNCHANGED sessionVars
    /\ UNCHANGED <<savedDatasets, recommendedDatasets, customLists, selectedForComparisonLinks, searchState, now>>
    /\ UNCHANGED viewVars
    /\ UNCHANGED downloads
    /\ Render
    /\ Persist

handleImportJSON(file) ==
    /\ activeTab = "saved"
    /\ Len(readers) < MaxReaders
    /\ readers' = Append(readers, [kind |-> "json", file |-> file, savedDatasets |-> savedDatasets])
    /\ lastOp' = [name |-> "handleImportJSON"]
    /\ UNCHANGED sessionVars
    /\ UNCHANGED <<savedDatasets, recommendedDatasets, customLists, selectedForComparisonLinks, searchState, now>>
    /\ UNCHANGED viewVars
    /\ UNCHANGED downloads
    /\ Render
    /\ Persist

\* new Set(savedDatasets.map(d => d.paperLink)) of the closure
ExistingLinks(reader) == Range(Links(reader.savedDatasets))

\* reader.onload of reader r: setSavedDatasets(prev => [...prev, ...newDatasets])
ReaderOnload(r) ==
    /\ r \in 1..Len(readers)
    /\ now < MaxNow
    /\ LET reader == readers[r]
           newDatasets == IF reader.kind = "csv"
                          THEN CsvImported(reader.file, ExistingLinks(reader), now)
                          ELSE JsonImported(reader.file, ExistingLinks(reader), now)
       IN  /\ Len(savedDatasets) + Len(newDatasets) <= MaxSaved
           /\ savedDatasets' = savedDatasets \o newDatasets
           /\ lastOp' = [name |-> "onload", kind |-> reader.kind, imported |-> Len(newDatasets),
                         parsed |-> IF reader.kind = "csv" THEN Len(SplitLines(reader.file)) >= 2
                                    ELSE IF reader.file.parses THEN reader.file.isArray ELSE FALSE]
    /\ readers' = [i \in 1..(Len(readers) - 1) |-> IF i < r THEN readers[i] ELSE readers[i + 1]]
    /\ now' = now + 1
    /\ UNCHANGED sessionVars
    /\ UNCHANGED <<recommendedDatasets, customLists, selectedForComparisonLinks, searchState>>
    /\ UNCHANGED viewVars
    /\ UNCHANGED downloads
    /\ Render
    /\ Persist

(***************************************************************************)
(* Named lists.                                                            *)
(***************************************************************************)
\* 'New Collection': prompt() gives name; if (!name) return; the list is appended
\* a New Collection that starts the lists afresh
createListAfresh(name) ==
    /\ activeTab = "saved"
    /\ now < MaxNow
    /\ IF name = <<>>
       THEN UNCHANGED <<customLists, now>>
       ELSE /\ Len(SelectSeq(customLists, LAMBDA l : l.createdAt >= 0)) < MaxLists
            /\ customLists' = <<[id |-> <<"list-", ToString(now)>>, name |-> name, datasetIds |-> <<>>, createdAt |-> now]>>
            /\ now' = now + 1
    /\ lastOp' = [name |-> "createList", given |-> name]
    /\ UNCHANGED sessionVars
    /\ UNCHANGED <<savedDatasets, recommendedDatasets, selectedForComparisonLinks, searchState, readers, downloads>>
    /\ UNCHANGED viewVars
    /\ Render
    /\ Persist

createList(name) ==
    /\ activeTab = "saved"
    /\ now < MaxNow
    /\ IF name = <<>>
       THEN UNCHANGED <<customLists, now>>
       ELSE /\ Len(SelectSeq(customLists, LAMBDA l : l.createdAt >= 0)) < MaxLists
            /\ customLists' = Append(customLists, [id |-> <<"list-", ToString(now)>>, name |-> name, datasetIds |-> <<>>, createdAt |-> now])
            /\ now' = now + 1
    /\ lastOp' = [name |-> "createList", given |-> name]
    /\ UNCHANGED sessionVars
    /\ UNCHANGED <<savedDatasets, recommendedDatasets, selectedForComparisonLinks, searchState, readers, downloads>>
    /\ UNCHANGED viewVars
    /\ Render
    /\ Persist

\* the delete control of list l, the confirm() answered with OK
\* a delete that removes every collection
deleteListEvery(l) ==
    /\ activeTab = "saved"
    /\ l \in 1..Len(customLists)
    /\ customLists' = <<>>
    /\ activeListId' = IF activeListId = customLists[l].id THEN ListAll ELSE activeListId
    /\ lastOp' = [name |-> "deleteList", id |-> customLists[l].id]
    /\ UNCHANGED sessionVars
    /\ UNCHANGED <<savedDatasets, recommendedDatasets, selectedForComparisonLinks, searchState, readers, downloads, now>>
    /\ UNCHANGED <<activeTab, filterQuery, sourceFilter, sortConfig>>
    /\ Render
    /\ Persist

deleteList(l) ==
    /\ activeTab = "saved"
    /\ l \in 1..Len(customLists)
    /\ customLists' = SelectSeq(customLists, LAMBDA x : x.id # customLists[l].id)
    /\ activeListId' = IF activeListId = customLists[l].id THEN ListAll ELSE activeListId
    /\ lastOp' = [name |-> "deleteList", id |-> customLists[l].id]
    /\ UNCHANGED sessionVars
    /\ UNCHANGED <<savedDatasets, recommendedDatasets, selectedForComparisonLinks, searchState, readers, downloads, now>>
    /\ UNCHANGED <<activeTab, filterQuery, sourceFilter, sortConfig>>
    /\ Render
    /\ Persist

\* the updater of toggleDatasetInList
ToggleInLists(prev, datasetId, listId) ==
    [i \in 1..Len(prev) |->
        IF prev[i].id = listId
        THEN [prev[i] EXCEPT !.datasetIds = IF ArrIncludes(prev[i].datasetIds, datasetId)
                                            THEN SelectSeq(prev[i].datasetIds, LAMBDA id : id # datasetId)
                                            ELSE Append(prev[i].datasetIds, datasetId)]
        ELSE prev[i]]

\* 'Add to Collection' of the card of displayItems[k] in the library grid
toggleDatasetInList(k, l) ==
    /\ activeTab = "saved"
    /\ k \in 1..Len(displayItems)
    /\ l \in 1..Len(customLists)
    /\ customLists' = ToggleInLists(customLists, displayItems[k].id, customLists[l].id)
    /\ lastOp' = [name |-> "toggleDatasetInList"]
    /\ UNCHANGED sessionVars
    /\ UNCHANGED <<savedDatasets, recommendedDatasets, selectedForComparisonLinks, searchState, readers, downloads, now>>
    /\ UNCHANGED viewVars
    /\ Render
    /\ Persist

\* a clearing that leaves the selection as it is
handleResetLibraryKeepsSelection ==
    /\ activeTab = "saved"
    /\ savedDatasets' = <<>>
    /\ customLists' = <<>>
    /\ activeListId' = ListAll
    /\ selectedForComparisonLinks' = selectedForComparisonLinks
    /\ lastOp' = [name |-> "handleResetLibrary", cleared |-> <<Len(savedDatasets), Len(customLists), Len(selectedForComparisonLinks)>>]
    /\ UNCHANGED sessionVars
    /\ UNCHANGED <<recommendedDatasets, searchState, readers, downloads, now>>
    /\ UNCHANGED <<activeTab, filterQuery, sourceFilter, sortConfig>>
    /\ Render
    /\ Persist

\* handleResetLibrary, the confirm() answered with Cancel: no state is set
handleResetLibraryDeclined ==
    /\ activeTab = "saved"
    /\ lastOp' = [name |-> "handleResetLibraryDeclined"]
    /\ UNCHANGED <<savedDatasets, recommendedDatasets, customLists, selectedForComparisonLinks, searchState, readers, downloads, now>>
    /\ UNCHANGED sessionVars
    /\ UNCHANGED viewVars
    /\ UNCHANGED <<displayItems, storage, isInitialized>>

\* handleResetLibrary, the confirm() answered with OK
handleResetLibrary ==
    /\ activeTab = "saved"
    /\ savedDatasets' = <<>>
    /\ customLists' = <<>>
    /\ activeListId' = ListAll
    /\ selectedForComparisonLinks' = <<>>
    /\ lastOp' = [name |-> "handleResetLibrary", cleared |-> <<Len(savedDatasets), Len(customLists), Len(selectedForComparisonLinks)>>]
    /\ UNCHANGED sessionVars
    /\ UNCHANGED <<recommendedDatasets, searchState, readers, downloads, now>>
    /\ UNCHANGED <<activeTab, filterQuery, sourceFilter, sortConfig>>
    /\ Render
    /\ Persist

(***************************************************************************)
(* Selection Set Manager.                                                  *)
(***************************************************************************)
\* the updater of toggleComparison
ToggleLink(prev, link) ==
    IF ArrIncludes(prev, link) THEN SelectSeq(prev, LAMBDA l : l # link) ELSE Append(prev, link)

\* what DatasetCard hands to onToggleSelect (handleToggle, SelectionOverlay)
CardToggleArgument(dataset) == dataset.id

\* a click on the selection control of the card of displayItems[k]
toggleComparison(k) ==
    /\ k \in 1..Len(displayItems)
    /\ activeTab = "discover" => ~searchState.isSearching
    /\ LET link == CardToggleArgument(displayItems[k])
       IN  /\ ArrIncludes(selectedForComparisonLinks, link) \/ Len(selectedForComparisonLinks) < MaxSelected
           /\ selectedForComparisonLinks' = ToggleLink(selectedForComparisonLinks, link)
           /\ lastOp' = [name |-> "toggleComparison", arg |-> link, card |-> displayItems[k].paperLink]
    /\ UNCHANGED sessionVars
    /\ UNCHANGED <<savedDatasets, recommendedDatasets, customLists, searchState, readers, downloads, now>>
    /\ UNCHANGED viewVars
    /\ Render
    /\ Persist

\* Array.from(new Set(items)): the first occurrence of every item, in order
RECURSIVE Unique(_)
Unique(items) ==
    IF items = <<>> THEN <<>>
    ELSE LET init == Unique(SubSeq(items, 1, Len(items) - 1))
         IN  IF ArrIncludes(init, items[Len(items)]) THEN init ELSE Append(init, items[Len(items)])

\* an 'Unselect All' that empties the selection
SelectAllVisibleClears(prev, visible) ==
    LET allVisibleLinks == Links(visible)
        areAllSelected == Len(allVisibleLinks) > 0 /\ \A i \in 1..Len(allVisibleLinks) : ArrIncludes(prev, allVisibleLinks[i])
    IN  IF areAllSelected THEN <<>> ELSE Unique(prev \o allVisibleLinks)

\* a 'Select All' that appends the displayed links without the Set
SelectAllVisibleAppends(prev, visible) ==
    LET allVisibleLinks == Links(visible)
        areAllSelected == Len(allVisibleLinks) > 0 /\ \A i \in 1..Len(allVisibleLinks) : ArrIncludes(prev, allVisibleLinks[i])
    IN  IF areAllSelected
        THEN SelectSeq(prev, LAMBDA link : ~ArrIncludes(allVisibleLinks, link))
        ELSE prev \o allVisibleLinks

\* what toggleSelectAllVisible makes of the selection
SelectAllVisible(prev, visible) ==
    LET allVisibleLinks == Links(visible)
        areAllSelected == Len(allVisibleLinks) > 0 /\ \A i \in 1..Len(allVisibleLinks) : ArrIncludes(prev, allVisibleLinks[i])
    IN  IF areAllSelected
        THEN SelectSeq(prev, LAMBDA link : ~ArrIncludes(allVisibleLinks, link))
        ELSE Unique(prev \o allVisibleLinks)

\* the bulk controls are rendered in the recommend grid, and in the discover
\* grid while no search runs and something is displayed
BulkControlsShown ==
    \/ activeTab = "recommend"
    \/ activeTab = "discover" /\ ~searchState.isSearching /\ Len(displayItems) > 0

\* 'Select All' / 'Unselect All'; lastOp keeps the selection the call started
\* from and, when it directly follows another call, the one that call started from
toggleSelectAllVisible ==
    /\ BulkControlsShown
    /\ selectedForComparisonLinks' = SelectAllVisible(selectedForComparisonLinks, displayItems)
    /\ lastOp' = [name |-> "toggleSelectAllVisible", before |-> selectedForComparisonLinks,
                  first |-> IF lastOp.name = "toggleSelectAllVisible" THEN <<lastOp.before>> ELSE <<>>]
    /\ UNCHANGED sessionVars
    /\ UNCHANGED <<savedDatasets, recommendedDatasets, customLists, searchState, readers, downloads, now>>
    /\ UNCHANGED viewVars
    /\ Render
    /\ Persist

\* a bulk save that empties the selection
SaveSelectedSelectionClears(tab, prev, visible) == <<>>

\* what handleSaveSelected makes of the selection
SaveSelectedSelection(tab, prev, visible) ==
    IF tab # "saved"
    THEN SelectSeq(prev, LAMBDA link : ~\E i \in 1..Len(visible) : visible[i].paperLink = link)
    ELSE prev

\* displayItems.filter(item => selectedForComparisonLinks.includes(item.paperLink))
VisibleSelectedItems(visible, selected) == SelectSeq(visible, LAMBDA item : ArrIncludes(selected, item.paperLink))

\* 'Add n to My Library', rendered when some displayed item is selected
handleSaveSelected ==
    /\ BulkControlsShown
    /\ \E i \in 1..Len(displayItems) : ArrIncludes(selectedForComparisonLinks, displayItems[i].paperLink)
    /\ now < MaxNow
    /\ savedDatasets' = SaveEach(savedDatasets, VisibleSelectedItems(displayItems, selectedForComparisonLinks), now, 1)
    /\ Len(savedDatasets') <= MaxSaved
    /\ selectedForComparisonLinks' = SaveSelectedSelection(activeTab, selectedForComparisonLinks, displayItems)
    /\ now' = now + 1
    /\ lastOp' = [name |-> "handleSaveSelected", added |-> Len(savedDatasets') - Len(savedDatasets),
                  existing |-> \E i \in 1..Len(displayItems), j \in 1..Len(savedDatasets) :
                                  /\ ArrIncludes(selectedForComparisonLinks, displayItems[i].paperLink)
                                  /\ savedDatasets[j].paperLink = displayItems[i].paperLink
                                  /\ savedDatasets[j].title # displayItems[i].title]
    /\ UNCHANGED sessionVars
    /\ UNCHANGED <<recommendedDatasets, customLists, searchState, readers, downloads>>
    /\ UNCHANGED viewVars
    /\ Render
    /\ Persist

\* 'Unselect' of the bulk controls (shown with 'Add n to My Library')
unselectVisible ==
    /\ BulkControlsShown
    /\ \E i \in 1..Len(displayItems) : ArrIncludes(selectedForComparisonLinks, displayItems[i].paperLink)
    /\ selectedForComparisonLinks' = SelectSeq(selectedForComparisonLinks, LAMBDA link : ~\E i \in 1..Len(displayItems) : displayItems[i].paperLink = link)
    /\ lastOp' = [name |-> "unselectVisible"]
    /\ UNCHANGED sessionVars
    /\ UNCHANGED <<savedDatasets, recommendedDatasets, customLists, searchState, readers, downloads, now>>
    /\ UNCHANGED viewVars
    /\ Render
    /\ Persist

\* the clear control of the comparison bar, shown while the selection is not empty
clearSelection ==
    /\ Len(selectedForComparisonLinks) > 0
    /\ selectedForComparisonLinks' = <<>>
    /\ lastOp' = [name |-> "clearSelection"]
    /\ UNCHANGED sessionVars
    /\ UNCHANGED <<savedDatasets, recommendedDatasets, customLists, searchState, readers, downloads, now>>
    /\ UNCHANGED viewVars
    /\ Render
    /\ Persist

(***************************************************************************)
(* View controls.                                                          *)
(***************************************************************************)
\* a tab switch that empties the selection
setActiveTabNarrows(tab) ==
    /\ activeTab' = tab
    /\ filterQuery' = <<>>
    /\ selectedForComparisonLinks' = <<>>
    /\ lastOp' = [name |-> "setActiveTab"]
    /\ UNCHANGED sessionVars
    /\ UNCHANGED <<savedDatasets, recommendedDatasets, customLists, searchState, readers, downloads, now>>
    /\ UNCHANGED <<activeListId, sourceFilter, sortConfig>>
    /\ Render
    /\ Persist

\* the tab buttons: setActiveTab(tab); setFilterQuery('')
setActiveTab(tab) ==
    /\ activeTab' = tab
    /\ filterQuery' = <<>>
    /\ lastOp' = [name |-> "setActiveTab"]
    /\ UNCHANGED sessionVars
    /\ UNCHANGED <<savedDatasets, recommendedDatasets, customLists, selectedForComparisonLinks, searchState, readers, downloads, now>>
    /\ UNCHANGED <<activeListId, sourceFilter, sortConfig>>
    /\ Render
    /\ Persist

\* the collection buttons of the library sidebar
setActiveListId(id) ==
    /\ activeTab = "saved"
    /\ id = ListAll \/ \E i \in 1..Len(customLists) : customLists[i].id = id
    /\ activeListId' = id
    /\ lastOp' = [name |-> "setActiveListId"]
    /\ UNCHANGED sessionVars
    /\ UNCHANGED <<savedDatasets, recommendedDatasets, customLists, selectedForComparisonLinks, searchState, readers, downloads, now>>
    /\ UNCHANGED <<activeTab, filterQuery, sourceFilter, sortConfig>>
    /\ Render
    /\ Persist

\* the filter input (there is none in the discover tab)
setFilterQuery(text) ==
    /\ activeTab # "discover"
    /\ filterQuery' = text
    /\ lastOp' = [name |-> "setFilterQuery"]
    /\ UNCHANGED sessionVars
    /\ UNCHANGED <<savedDatasets, recommendedDatasets, customLists, selectedForComparisonLinks, searchState, readers, downloads, now>>
    /\ UNCHANGED <<activeListId, activeTab, sourceFilter, sortConfig>>
    /\ Render
    /\ Persist

\* the source buttons of the discover tab
setSourceFilter(src) ==
    /\ activeTab = "discover"
    /\ sourceFilter' = src
    /\ lastOp' = [name |-> "setSourceFilter"]
    /\ UNCHANGED sessionVars
    /\ UNCHANGED <<savedDatasets, recommendedDatasets, customLists, selectedForComparisonLinks, searchState, readers, downloads, now>>
    /\ UNCHANGED <<activeListId, activeTab, filterQuery, sortConfig>>
    /\ Render
    /\ Persist

\* the sort buttons (library and recommend tabs)
setSortConfig(field) ==
    /\ activeTab # "discover"
    /\ sortConfig' = IF field = "title"
                     THEN [field |-> "title", order |-> IF sortConfig.field = "title" /\ sortConfig.order = "asc" THEN "desc" ELSE "asc"]
                     ELSE [field |-> "year", order |-> IF sortConfig.field = "year" /\ sortConfig.order = "desc" THEN "asc" ELSE "desc"]
    /\ lastOp' = [name |-> "setSortConfig"]
    /\ UNCHANGED sessionVars
    /\ UNCHANGED <<savedDatasets, recommendedDatasets, customLists, selectedForComparisonLinks, searchState, readers, downloads, now>>
    /\ UNCHANGED <<activeListId, activeTab, filterQuery, sourceFilter>>
    /\ Render
    /\ Persist

(***************************************************************************)
(* Retrieval Session.                                                      *)
(***************************************************************************)
MAX_HISTORY_ITEMS == 8

SEARCH_STATUSES ==
    << "Initializing search parameters...", "Querying academic databases (arXiv, Scholar)...",
       "Checking Hugging Face datasets...", "Identifying benchmark datasets in papers...",
       "Cross-referencing GitHub repositories...", "Extracting specifications and metrics...",
       "Analyzing data formats and sizes...", "Synthesizing results..." >>

DEFAULT_SETTINGS == [model |-> "gemini-3-pro-preview"]

\* what the user types into the search input
Queries == {<<"q">>, <<"Q">>, <<" ">>}

\* what response.text parses to
RawResponses == {RawResponse, <<>>}

\* the errors searchBenchmarkDatasets rejects with: its catch block wraps
\* every failure of the request in a new Error
ServiceErrors ==
    { [name |-> "Error", message |-> <<"API Key or Model not found. Please select a valid API key from a paid GCP project.">>],
      [name |-> "Error", message |-> <<"Failed to fetch benchmark data. Please check your connection or API key.">>] }

\* a history without the slice
HistoryUpdaterUncapped(prev, activeQuery) ==
    <<activeQuery>> \o SelectSeq(prev, LAMBDA q : q # activeQuery)

\* the updater of the history in handleSearch
HistoryUpdater(prev, activeQuery) ==
    LET all == <<activeQuery>> \o SelectSeq(prev, LAMBDA q : q # activeQuery)
    IN  SubSeq(all, 1, IF Len(all) < MAX_HISTORY_ITEMS THEN Len(all) ELSE MAX_HISTORY_ITEMS)

\* the input of the discover tab
setQuery(q) ==
    /\ activeTab = "discover"
    /\ query # q
    /\ query' = q
    /\ lastOp' = [name |-> "setQuery"]
    /\ UNCHANGED <<savedDatasets, recommendedDatasets, customLists, selectedForComparisonLinks, searchState, readers, downloads, now>>
    /\ UNCHANGED <<searchHistory, settings, progressInterval, abortControllerRef, timers, calls, started, cancelled>>
    /\ UNCHANGED viewVars
    /\ Render
    /\ Persist

\* a submission that keeps the results on screen
handleSearchKeepsResults ==
    /\ activeTab = "discover"
    /\ ~searchState.isSearching
    /\ Trim(query) # <<>>
    /\ started < MaxCalls
    /\ searchHistory' = HistoryUpdater(searchHistory, query)
    /\ abortControllerRef' = <<[id |-> started + 1, aborted |-> FALSE]>>
    /\ searchState' = [isSearching |-> TRUE, results |-> searchState.results, error |-> Undefined, progress |-> 5, status |-> SEARCH_STATUSES[1]]
    /\ activeTab' = "discover"
    /\ sourceFilter' = All
    /\ progressInterval' = <<started + 1>>
    /\ timers' = timers \cup {started + 1}
    /\ calls' = calls \cup {[id |-> started + 1, query |-> query, model |-> settings.model, prior |-> searchState.results]}
    /\ started' = started + 1
    /\ lastOp' = [name |-> "handleSearch", call |-> started + 1]
    /\ UNCHANGED <<savedDatasets, recommendedDatasets, customLists, selectedForComparisonLinks, readers, downloads, now>>
    /\ UNCHANGED <<query, settings, cancelled>>
    /\ UNCHANGED <<activeListId, filterQuery, sortConfig>>
    /\ Render
    /\ Persist

\* handleSearch up to its await: the form is submitted (the submit button is
\* disabled while a search runs or the input is blank). A call carries, for
\* the properties, the results shown when it was submitted (prior).
handleSearch ==
    /\ activeTab = "discover"
    /\ ~searchState.isSearching
    /\ Trim(query) # <<>>
    /\ started < MaxCalls
    /\ searchHistory' = HistoryUpdater(searchHistory, query)
    /\ abortControllerRef' = <<[id |-> started + 1, aborted |-> FALSE]>>
    /\ searchState' = [isSearching |-> TRUE, results |-> <<>>, error |-> Undefined, progress |-> 5, status |-> SEARCH_STATUSES[1]]
    /\ activeTab' = "discover"
    /\ sourceFilter' = All
    /\ progressInterval' = <<started + 1>>
    /\ timers' = timers \cup {started + 1}
    /\ calls' = calls \cup {[id |-> started + 1, query |-> query, model |-> settings.model, prior |-> searchState.results]}
    /\ started' = started + 1
    /\ lastOp' = [name |-> "handleSearch", call |-> started + 1]
    /\ UNCHANGED <<savedDatasets, recommendedDatasets, customLists, selectedForComparisonLinks, readers, downloads, now>>
    /\ UNCHANGED <<query, settings, cancelled>>
    /\ UNCHANGED <<activeListId, filterQuery, sortConfig>>
    /\ Render
    /\ Persist

\* an advance without the cap
ProgressUpdaterUncapped(prev) ==
    IF ~prev.isSearching THEN prev ELSE [prev EXCEPT !.progress = prev.progress + 2]

\* the updater of the interval callback
ProgressUpdater(prev) ==
    IF ~prev.isSearching THEN prev
    ELSE LET nextProgress == IF prev.progress + 2 < 95 THEN prev.progress + 2 ELSE 95
             scaled == (nextProgress * Len(SEARCH_STATUSES)) \div 100
             statusIdx == IF scaled < Len(SEARCH_STATUSES) - 1 THEN scaled ELSE Len(SEARCH_STATUSES) - 1
         IN  [prev EXCEPT !.progress = nextProgress, !.status = SEARCH_STATUSES[statusIdx + 1]]

\* a tick of the live interval t; the ticks of a search are followed for its
\* first MaxTicks advances and from MaxTicks advances before the cap on
IntervalTick(t) ==
    /\ t \in timers
    /\ searchState.progress < 5 + 2 * MaxTicks \/ searchState.progress >= 95 - 2 * MaxTicks
    /\ searchState' = ProgressUpdater(searchState)
    /\ lastOp' = [name |-> "tick", timer |-> t]
    /\ UNCHANGED <<savedDatasets, recommendedDatasets, customLists, selectedForComparisonLinks, readers, downloads, now>>
    /\ UNCHANGED sessionVars
    /\ UNCHANGED viewVars
    /\ Render
    /\ Persist

\* clearInterval(progressInterval.current), guarded by if (progressInterval.current)
ClearProgressInterval(live, ref) == IF ref # Null THEN live \ {ref[1]} ELSE live

\* a completion that leaves the search running
CompleteStateRunning(results) == [isSearching |-> TRUE, results |-> results, error |-> Undefined, progress |-> 100, status |-> "Complete"]

\* the state handleSearch sets when its await returns results
CompleteState(results) == [isSearching |-> FALSE, results |-> results, error |-> Undefined, progress |-> 100, status |-> "Complete"]

\* a failure that stores no message
FailedStateSilent(error) == [isSearching |-> FALSE, results |-> <<>>, error |-> Undefined, progress |-> 0, status |-> ""]

\* the state handleSearch sets in its catch block
FailedState(error) == [isSearching |-> FALSE, results |-> <<>>, error |-> error.message, progress |-> 0, status |-> ""]

\* the updater of handleCancelSearch
CancelUpdater(prev) == [prev EXCEPT !.isSearching = FALSE, !.status = "Search cancelled by user", !.progress = 0]

\* the call c of searchBenchmarkDatasets returns: handleSearch resumes after
\* its await in the try block
SearchResolve(c, rawData) ==
    /\ c \in calls
    /\ calls' = calls \ {c}
    /\ timers' = ClearProgressInterval(timers, progressInterval)
    /\ searchState' = CompleteState(MapRawData(rawData, now, GroundingChunks))
    /\ lastOp' = [name |-> "resolve", call |-> c.id, changed |-> searchState' # searchState, stopped |-> timers \ timers', returned |-> MapRawData(rawData, now, GroundingChunks)]
    /\ UNCHANGED <<savedDatasets, recommendedDatasets, customLists, selectedForComparisonLinks, readers, downloads, now>>
    /\ UNCHANGED <<query, searchHistory, settings, progressInterval, abortControllerRef, started, cancelled>>
    /\ UNCHANGED viewVars
    /\ Render
    /\ Persist

\* the call c of searchBenchmarkDatasets throws: the catch block of handleSearch
SearchReject(c, error) ==
    /\ c \in calls
    /\ calls' = calls \ {c}
    /\ IF error.name = "AbortError"
       THEN UNCHANGED <<timers, searchState>>
       ELSE /\ timers' = ClearProgressInterval(timers, progressInterval)
            /\ searchState' = FailedState(error)
    /\ lastOp' = [name |-> "reject", call |-> c.id, changed |-> searchState' # searchState, stopped |-> timers \ timers', prior |-> c.prior]
    /\ UNCHANGED <<savedDatasets, recommendedDatasets, customLists, selectedForComparisonLinks, readers, downloads, now>>
    /\ UNCHANGED <<query, searchHistory, settings, progressInterval, abortControllerRef, started, cancelled>>
    /\ UNCHANGED viewVars
    /\ Render
    /\ Persist

\* the cancel button, rendered while searchState.isSearching
handleCancelSearch ==
    /\ activeTab = "discover"
    /\ searchState.isSearching
    /\ abortControllerRef' = IF abortControllerRef # Null THEN <<[abortControllerRef[1] EXCEPT !.aborted = TRUE]>> ELSE abortControllerRef
    /\ timers' = ClearProgressInterval(timers, progressInterval)
    /\ searchState' = CancelUpdater(searchState)
    /\ lastOp' = [name |-> "handleCancelSearch", call |-> started]
    /\ UNCHANGED <<savedDatasets, recommendedDatasets, customLists, selectedForComparisonLinks, readers, downloads, now>>
    /\ cancelled' = cancelled \cup {started}
    /\ UNCHANGED <<query, searchHistory, settings, progressInterval, calls, started>>
    /\ UNCHANGED viewVars
    /\ Render
    /\ Persist

(***************************************************************************)
(* Specifications.                                                         *)
(***************************************************************************)
NoSearch == [isSearching |-> FALSE, results |-> <<>>, error |-> Undefined, progress |-> 0, status |-> ""]

\* the app after its first startup, the feed fetch having failed: the feed is
\* the fallback set and the library is seeded with its first five records
Init ==
    /\ recommendedDatasets = FALLBACK_DATASETS
    /\ savedDatasets = SubSeq(FALLBACK_DATASETS, 1, IF Len(FALLBACK_DATASETS) < 5 THEN Len(FALLBACK_DATASETS) ELSE 5)
    /\ customLists = <<>>
    /\ activeListId = ListAll
    /\ activeTab = "saved"
    /\ selectedForComparisonLinks = <<>>
    /\ filterQuery = <<>>
    /\ sourceFilter = All
    /\ sortConfig = [field |-> "year", order |-> "desc"]
    /\ searchState = NoSearch
    /\ query = <<>>
    /\ searchHistory = <<>>
    /\ settings = DEFAULT_SETTINGS
    /\ progressInterval = Null
    /\ abortControllerRef = Null
    /\ timers = {}
    /\ calls = {}
    /\ started = 0
    /\ cancelled = {}
    /\ readers = <<>>
    /\ now = 0
    /\ displayItems = Rendered
    /\ downloads = <<>>
    /\ storage = StorageOf(savedDatasets, customLists, settings, searchHistory)
    /\ isInitialized = TRUE
    /\ lastOp = [name |-> "init"]

\* the retrieval session
NextSearch ==
    \/ \E tab \in {"saved", "discover"} : setActiveTab(tab)
    \/ \E q \in Queries : setQuery(q)
    \/ handleSearch
    \/ \E t \in timers : IntervalTick(t)
    \/ \E c \in calls, rawData \in RawResponses : SearchResolve(c, rawData)
    \/ \E c \in calls, error \in ServiceErrors : SearchReject(c, error)
    \/ handleCancelSearch

SpecSearch == Init /\ [][NextSearch]_vars

\* the state SpecSearch reaches by opening the discover tab, typing q,
\* submitting and receiving RawResponse
AfterSearch ==
    /\ recommendedDatasets = FALLBACK_DATASETS
    /\ savedDatasets = FALLBACK_DATASETS
    /\ customLists = <<>>
    /\ activeListId = ListAll
    /\ activeTab = "discover"
    /\ selectedForComparisonLinks = <<>>
    /\ filterQuery = <<>>
    /\ sourceFilter = All
    /\ sortConfig = [field |-> "year", order |-> "desc"]
    /\ searchState = CompleteState(MapRawData(RawResponse, 0, GroundingChunks))
    /\ query = <<"q">>
    /\ searchHistory = << <<"q">> >>
    /\ settings = DEFAULT_SETTINGS
    /\ progressInterval = <<1>>
    /\ abortControllerRef = <<[id |-> 1, aborted |-> FALSE]>>
    /\ timers = {}
    /\ calls = {}
    /\ started = 1
    /\ cancelled = {}
    /\ readers = <<>>
    /\ now = 0

InitAfterSearch ==
    /\ AfterSearch
    /\ displayItems = Rendered
    /\ downloads = <<>>
    /\ storage = StorageOf(savedDatasets, customLists, settings, searchHistory)
    /\ isInitialized = TRUE
    /\ lastOp = [name |-> "init"]

\* the library and its named lists
NextLists ==
    \/ \E tab \in {"saved", "recommend"} : setActiveTab(tab)
    \/ \E id \in {ListAll} \cup {customLists[i].id : i \in 1..Len(customLists)} : setActiveListId(id)
    \/ \E k \in 1..Len(displayItems) : handleSave(k)
    \/ \E k \in 1..Len(displayItems) : handleRemove(k)
    \/ \E name \in ListNames : createList(name)
    \/ \E l \in 1..Len(customLists) : deleteList(l)
    \/ \E k \in 1..Len(displayItems), l \in 1..Len(customLists) : toggleDatasetInList(k, l)
    \/ handleResetLibrary

SpecLists == Init /\ [][NextLists]_vars

\* the library under imports
NextImport ==
    \/ \E tab \in {"saved", "recommend"} : setActiveTab(tab)
    \/ \E k \in 1..Len(displayItems) : handleSave(k)
    \/ \E k \in 1..Len(displayItems) : handleRemove(k)
    \/ \E file \in CsvFiles : handleImport(file)
    \/ \E file \in JsonFiles : handleImportJSON(file)
    \/ \E r \in 1..Len(readers) : ReaderOnload(r)

\* a later startup: the stored library holds fb-1 alone
InitStored ==
    /\ recommendedDatasets = FALLBACK_DATASETS
    /\ savedDatasets = SubSeq(FALLBACK_DATASETS, 1, 1)
    /\ customLists = <<>>
    /\ activeListId = ListAll
    /\ activeTab = "saved"
    /\ selectedForComparisonLinks = <<>>
    /\ filterQuery = <<>>
    /\ sourceFilter = All
    /\ sortConfig = [field |-> "year", order |-> "desc"]
    /\ searchState = NoSearch
    /\ query = <<>>
    /\ searchHistory = <<>>
    /\ settings = DEFAULT_SETTINGS
    /\ progressInterval = Null
    /\ abortControllerRef = Null
    /\ timers = {}
    /\ calls = {}
    /\ started = 0
    /\ cancelled = {}
    /\ readers = <<>>
    /\ now = 0
    /\ displayItems = Rendered
    /\ downloads = <<>>
    /\ storage = StorageOf(savedDatasets, customLists, settings, searchHistory)
    /\ isInitialized = TRUE
    /\ lastOp = [name |-> "init"]

SpecImport == InitStored /\ [][NextImport]_vars

FilterTexts == {<<>>, <<"m","e">>}

\* the selection over the three views
NextSelection ==
    \/ \E tab \in {"saved", "recommend", "discover"} : setActiveTab(tab)
    \/ \E text \in FilterTexts : setFilterQuery(text)
    \/ \E k \in 1..Len(displayItems) : toggleComparison(k)
    \/ toggleSelectAllVisible
    \/ unselectVisible
    \/ clearSelection
    \/ handleSaveSelected

SpecSelection == InitAfterSearch /\ [][NextSelection]_vars

\* the selection while records leave the library and the search results
NextRemoval ==
    \/ \E tab \in {"saved", "discover"} : setActiveTab(tab)
    \/ \E src \in {All, ArXiv} : setSourceFilter(src)
    \/ toggleSelectAllVisible
    \/ handleSaveSelected
    \/ \E k \in 1..Len(displayItems) : handleSave(k)
    \/ \E k \in 1..Len(displayItems) : handleRemove(k)
    \/ handleSearch

SpecRemoval == InitAfterSearch /\ [][NextRemoval]_vars

(***************************************************************************)
(* Startup and persistence.                                                *)
(***************************************************************************)
\* the models of the settings dialog
GeminiModels == {"gemini-3-pro-preview", "gemini-3-flash-preview", "gemini-flash-lite-latest"}

\* SettingsModal.handleModelChange: onUpdate({...settings, model})
updateSettings(model) ==
    /\ settings' = [settings EXCEPT !.model = model]
    /\ lastOp' = [name |-> "updateSettings"]
    /\ UNCHANGED <<savedDatasets, recommendedDatasets, customLists, selectedForComparisonLinks, searchState, readers, downloads, now>>
    /\ UNCHANGED <<query, searchHistory, progressInterval, abortControllerRef, timers, calls, started, cancelled>>
    /\ UNCHANGED viewVars
    /\ Render
    /\ Persist

\* a bp-dataset.json of six records
FeedOfSix ==
    [i \in 1..6 |-> Dataset(<<"bp-", ToString(i)>>, <<"b">>, ArXiv, Undefined, <<"2","0","2","0">>, <<"p", ToString(i)>>, Undefined, Undefined, Undefined, <<"d">>, Undefined)]

\* what loadRecommendedData returns: the fallback records when the fetch
\* fails or the file holds no array, the array of the file otherwise
Feeds == {FALLBACK_DATASETS, FeedOfSix}

\* a startup that seeds the library when the snapshot is absent or empty
StartupLibraryReseeds(storedLib, jsonItems) ==
    IF storedLib # Null /\ storedLib[1] # <<>>
    THEN storedLib[1]
    ELSE SubSeq(jsonItems, 1, IF Len(jsonItems) < 5 THEN Len(jsonItems) ELSE 5)

\* the library the init effect sets: the stored array if there is a
\* snapshot, jsonItems.slice(0, 5) otherwise
StartupLibrary(storedLib, jsonItems) ==
    IF storedLib # Null
    THEN storedLib[1]
    ELSE SubSeq(jsonItems, 1, IF Len(jsonItems) < 5 THEN Len(jsonItems) ELSE 5)

\* the page is loaded anew: every state and ref has its initial value, the
\* timers, calls and readers of the old page are gone, storage stays
Restart ==
    /\ recommendedDatasets' = <<>>
    /\ savedDatasets' = <<>>
    /\ customLists' = <<>>
    /\ activeListId' = ListAll
    /\ activeTab' = "saved"
    /\ selectedForComparisonLinks' = <<>>
    /\ filterQuery' = <<>>
    /\ sourceFilter' = All
    /\ sortConfig' = [field |-> "year", order |-> "desc"]
    /\ searchState' = NoSearch
    /\ query' = <<>>
    /\ searchHistory' = <<>>
    /\ settings' = DEFAULT_SETTINGS
    /\ progressInterval' = Null
    /\ abortControllerRef' = Null
    /\ timers' = {}
    /\ calls' = {}
    /\ readers' = <<>>
    /\ displayItems' = <<>>
    /\ isInitialized' = FALSE
    /\ lastOp' = [name |-> "restart"]
    /\ UNCHANGED <<downloads, storage, started, cancelled, now>>

\* what fetch('bp-dataset.json') and response.json() come to: the request
\* fails, the status is not OK, the body is no JSON, the JSON is no array,
\* or it is an array of records
FetchOutcomes ==
    {[kind |-> "networkError"], [kind |-> "notOk"], [kind |-> "noJson"], [kind |-> "noArray"]}
        \cup {[kind |-> "array", data |-> feed] : feed \in Feeds}

\* a load that returns nothing when the fetch fails
loadRecommendedDataEmpty(outcome) == IF outcome.kind = "array" THEN outcome.data ELSE <<>>

\* loadRecommendedData: every failure ends in FALLBACK_DATASETS
loadRecommendedData(outcome) == IF outcome.kind = "array" THEN outcome.data ELSE FALLBACK_DATASETS

\* the init effect from the end of its await on, and the render that follows:
\* the feed is set, each state with a snapshot is set from it, the library
\* without a snapshot is seeded, and the states set are written back
InitEffect(outcome) ==
    /\ ~isInitialized
    /\ recommendedDatasets' = loadRecommendedData(outcome)
    /\ savedDatasets' = StartupLibrary(storage.saved, recommendedDatasets')
    /\ customLists' = IF storage.lists # Null THEN storage.lists[1] ELSE customLists
    /\ settings' = IF storage.settings # Null THEN storage.settings[1] ELSE settings
    /\ searchHistory' = IF storage.history # Null THEN storage.history[1] ELSE searchHistory
    /\ isInitialized' = TRUE
    /\ storage' = [storage EXCEPT !.saved = <<savedDatasets'>>]
    /\ lastOp' = [name |-> "startup", snapshot |-> storage.saved # Null, fetched |-> outcome.kind = "array"]
    /\ UNCHANGED <<selectedForComparisonLinks, searchState, readers, downloads, now>>
    /\ UNCHANGED <<query, progressInterval, abortControllerRef, timers, calls, started, cancelled>>
    /\ UNCHANGED viewVars
    /\ Render

\* the page at its first load, the init effect waiting for the feed
InitMount ==
    /\ recommendedDatasets = <<>>
    /\ savedDatasets = <<>>
    /\ customLists = <<>>
    /\ activeListId = ListAll
    /\ activeTab = "saved"
    /\ selectedForComparisonLinks = <<>>
    /\ filterQuery = <<>>
    /\ sourceFilter = All
    /\ sortConfig = [field |-> "year", order |-> "desc"]
    /\ searchState = NoSearch
    /\ query = <<>>
    /\ searchHistory = <<>>
    /\ settings = DEFAULT_SETTINGS
    /\ progressInterval = Null
    /\ abortControllerRef = Null
    /\ timers = {}
    /\ calls = {}
    /\ started = 0
    /\ cancelled = {}
    /\ readers = <<>>
    /\ now = 0
    /\ displayItems = <<>>
    /\ downloads = <<>>
    /\ storage = [saved |-> Null, lists |-> Null, settings |-> Null, history |-> Null]
    /\ isInitialized = FALSE
    /\ lastOp = [name |-> "mount"]

\* startups, and what the user changes between them
NextStartup ==
    \/ \E outcome \in FetchOutcomes : InitEffect(outcome)
    \/ Restart
    \/ \E k \in 1..Len(displayItems) : handleRemove(k)
    \/ handleResetLibrary
    \/ createList(<<"A">>)
    \/ \E l \in 1..Len(customLists) : deleteList(l)
    \/ \E id \in {ListAll} \cup {customLists[i].id : i \in 1..Len(customLists)} : setActiveListId(id)
    \/ updateSettings("gemini-3-flash-preview")

SpecStartup == InitMount /\ [][NextStartup]_vars

\* a history of eight queries, as a startup reads it from storage
StoredHistory == << <<"Q">>, <<"a">>, <<"b">>, <<"c">>, <<"d">>, <<"e">>, <<"f">>, <<"g">> >>

\* a later startup: the stored library is the seeded one, the stored history is full
InitHistory ==
    /\ recommendedDatasets = FALLBACK_DATASETS
    /\ savedDatasets = FALLBACK_DATASETS
    /\ customLists = <<>>
    /\ activeListId = ListAll
    /\ activeTab = "saved"
    /\ selectedForComparisonLinks = <<>>
    /\ filterQuery = <<>>
    /\ sourceFilter = All
    /\ sortConfig = [field |-> "year", order |-> "desc"]
    /\ searchState = NoSearch
    /\ query = <<>>
    /\ searchHistory = StoredHistory
    /\ settings = DEFAULT_SETTINGS
    /\ progressInterval = Null
    /\ abortControllerRef = Null
    /\ timers = {}
    /\ calls = {}
    /\ started = 0
    /\ cancelled = {}
    /\ readers = <<>>
    /\ now = 0
    /\ displayItems = Rendered
    /\ downloads = <<>>
    /\ storage = StorageOf(savedDatasets, customLists, settings, searchHistory)
    /\ isInitialized = TRUE
    /\ lastOp = [name |-> "init"]

SpecHistory == InitHistory /\ [][NextSearch]_vars

\* the views and the selection
NextViews ==
    \/ \E tab \in {"saved", "recommend", "discover"} : setActiveTab(tab)
    \/ \E id \in {ListAll} \cup {customLists[i].id : i \in 1..Len(customLists)} : setActiveListId(id)
    \/ createList(<<"A">>)
    \/ \E k \in 1..Len(displayItems), l \in 1..Len(customLists) : toggleDatasetInList(k, l)
    \/ \E k \in 1..Len(displayItems) : toggleComparison(k)
    \/ clearSelection

SpecViews == InitAfterSearch /\ [][NextViews]_vars

(***************************************************************************)
(* Properties.                                                             *)
(***************************************************************************)
NoDuplicates(items) == \A i, j \in 1..Len(items) : items[i] = items[j] => i = j

\* some record of the feed, the search results or the library has the link
LiveLink(link) ==
    \/ \E i \in 1..Len(recommendedDatasets) : recommendedDatasets[i].paperLink = link
    \/ \E i \in 1..Len(searchState.results) : searchState.results[i].paperLink = link
    \/ \E i \in 1..Len(savedDatasets) : savedDatasets[i].paperLink = link

\* C1: after any sequence of saves and CSV / JSON imports, no two records of
\* the saved library have the same paper link.
NaturalKeyUnique == NoDuplicates(Links(savedDatasets))

\* C2: when the retrieval call of a cancelled search returns, and no later
\* search was submitted, the search state stays cancelled: not searching,
\* results empty, progress 0.
CancelledStaysCancelled ==
    (lastOp.name = "resolve" /\ lastOp.call \in cancelled /\ lastOp.call = started)
        => (~searchState.isSearching /\ searchState.results = <<>> /\ searchState.progress = 0)

\* C3: a response or failure of a search that is not the most recently
\* submitted one never changes the search state.
StaleResponseIgnored ==
    (lastOp.name \in {"resolve", "reject"} /\ lastOp.call # started) => ~lastOp.changed

\* C4: at most one progress timer is live, none is live while no search
\* runs, and the completion of a search stops no timer but its own (the
\* timer of search n is interval n).
TimerDiscipline ==
    /\ Cardinality(timers) <= 1
    /\ ~searchState.isSearching => timers = {}
    /\ lastOp.name \in {"resolve", "reject"} => lastOp.stopped \subseteq {lastOp.call}

\* C5: a save leaves every record of the library as it was, at its place,
\* adds no record whose paper link the library held, and changes nothing
\* when every record it is given has a paper link of the library.
SaveExistingIsNoOp ==
    [][lastOp'.name \in {"handleSave", "handleSaveSelected"} =>
        /\ Len(savedDatasets') >= Len(savedDatasets)
        /\ \A i \in 1..Len(savedDatasets) : savedDatasets'[i] = savedDatasets[i]
        /\ \A j \in (Len(savedDatasets) + 1)..Len(savedDatasets') : ~isSaved(savedDatasets'[j].paperLink)
        /\ (lastOp'.name = "handleSaveSelected" /\ \A i \in 1..Len(displayItems) : ArrIncludes(selectedForComparisonLinks, displayItems[i].paperLink) => isSaved(displayItems[i].paperLink))
               => savedDatasets' = savedDatasets
      ]_vars

\* C5 witness: a bulk save was handed a record whose paper link the library
\* held under another title.
SaveExistingHappened == lastOp.name = "handleSaveSelected" /\ lastOp.existing

RemovePrunesSelection ==
    (lastOp.name = "handleRemove" /\ lastOp.selected)
        => (ArrIncludes(selectedForComparisonLinks, lastOp.link) <=> LiveLink(lastOp.link))

\* the paper links of the displayed records
VisibleKeys == Range(Links(displayItems))

\* C8 as stated: a second 'Select All' that directly follows a first one, the
\* view unchanged, leaves the set of selected links the first call started from.
SelectAllTwiceRestores ==
    (lastOp.name = "toggleSelectAllVisible" /\ lastOp.first # <<>>)
        => Range(selectedForComparisonLinks) = Range(lastOp.first[1])

\* C8 amended: the two calls restore the set of selected links when, before
\* the first call, either every displayed link or no displayed link was selected.
SelectAllTwiceRestoresUniform ==
    (/\ lastOp.name = "toggleSelectAllVisible"
     /\ lastOp.first # <<>>
     /\ \/ VisibleKeys \subseteq Range(lastOp.first[1])
        \/ VisibleKeys \cap Range(lastOp.first[1]) = {})
        => Range(selectedForComparisonLinks) = Range(lastOp.first[1])

\* C8 witness: two calls in a row, started with every displayed link selected
\* next to a link that is not displayed.
SelectAllTwiceHappened ==
    /\ lastOp.name = "toggleSelectAllVisible"
    /\ lastOp.first # <<>>
    /\ VisibleKeys # {}
    /\ VisibleKeys \subseteq Range(lastOp.first[1])
    /\ Range(lastOp.first[1]) \ VisibleKeys # {}

\* C9: 'Select All' removes the displayed links from the selection when every
\* displayed link is selected, and otherwise makes the selection the union of
\* the old selection and the displayed links, each link once.
SelectAllFunctional ==
    [][lastOp'.name = "toggleSelectAllVisible" =>
        IF VisibleKeys \subseteq Range(selectedForComparisonLinks)
        THEN selectedForComparisonLinks' = SelectSeq(selectedForComparisonLinks, LAMBDA link : link \notin VisibleKeys)
        ELSE /\ Range(selectedForComparisonLinks') = Range(selectedForComparisonLinks) \cup VisibleKeys
             /\ NoDuplicates(selectedForComparisonLinks')
      ]_vars

\* C9 witness: 'Select All' has added displayed links to a selection that
\* held some of them already.
SelectAllAddedToPartial ==
    /\ lastOp.name = "toggleSelectAllVisible"
    /\ Range(lastOp.before) \cap VisibleKeys # {}
    /\ ~(VisibleKeys \subseteq Range(lastOp.before))
    /\ VisibleKeys \subseteq Range(selectedForComparisonLinks)

\* C10: the bulk save leaves the library holding every displayed selected
\* link, keeps the records the library had, adds only displayed selected
\* records under new ids, one for a link; outside the library view it takes
\* the displayed links, and no other, out of the selection, and in the
\* library view its selection updater changes nothing.
SaveSelectedFrame ==
    [][/\ SaveSelectedSelection("saved", selectedForComparisonLinks, displayItems) = selectedForComparisonLinks
       /\ lastOp'.name = "handleSaveSelected" =>
            /\ \A i \in 1..Len(displayItems) :
                   ArrIncludes(selectedForComparisonLinks, displayItems[i].paperLink)
                       => ArrIncludes(Links(savedDatasets'), displayItems[i].paperLink)
            /\ SubSeq(savedDatasets', 1, Len(savedDatasets)) = savedDatasets
            /\ \A j \in (Len(savedDatasets) + 1)..Len(savedDatasets') :
                   /\ ~isSaved(savedDatasets'[j].paperLink)
                   /\ \E i \in 1..Len(displayItems) :
                          /\ ArrIncludes(selectedForComparisonLinks, displayItems[i].paperLink)
                          /\ savedDatasets'[j] = [displayItems[i] EXCEPT !.id = savedDatasets'[j].id]
            /\ NoDuplicates(Links(SubSeq(savedDatasets', Len(savedDatasets) + 1, Len(savedDatasets'))))
            /\ activeTab # "saved" =>
                   selectedForComparisonLinks' = SelectSeq(selectedForComparisonLinks, LAMBDA link : link \notin VisibleKeys)
      ]_vars

\* C10 witness: a bulk save has added a record and left a link that was not
\* displayed in the selection.
SaveSelectedHappened ==
    lastOp.name = "handleSaveSelected" /\ lastOp.added > 0 /\ selectedForComparisonLinks # <<>>

\* C11: a switch of the view (a tab button, a collection of the sidebar)
\* leaves the selection as it was.
ViewSwitchKeepsSelection ==
    [][lastOp'.name \in {"setActiveTab", "setActiveListId"}
          => selectedForComparisonLinks' = selectedForComparisonLinks]_vars

\* C11 witness: the view was switched with a record selected that the new
\* view does not show.
ViewSwitchedWithSelection ==
    /\ lastOp.name \in {"setActiveTab", "setActiveListId"}
    /\ \E i \in 1..Len(selectedForComparisonLinks) :
           \A k \in 1..Len(displayItems) :
               /\ displayItems[k].paperLink # selectedForComparisonLinks[i]
               /\ displayItems[k].id # selectedForComparisonLinks[i]

\* C12: while the search submitted last is one the user cancelled, the
\* search state carries no error message, whatever its retrieval call does.
CancelledHasNoError ==
    started \in cancelled => searchState.error = Undefined

\* C13: no two entries of the query history are equal when letter case is
\* ignored.
HistoryCaseInsensitive ==
    \A i, j \in 1..Len(searchHistory) :
        ToLowerCase(searchHistory[i]) = ToLowerCase(searchHistory[j]) => i = j

\* C14: the history never holds more than 8 entries; a submission puts its
\* query first, keeps the other entries in their order behind it and drops
\* from the end what does not fit in 8.
HistoryCappedRecentFirst ==
    [][/\ Len(searchHistory') <= 8
       /\ lastOp'.name = "handleSearch" =>
            LET rest == SelectSeq(searchHistory, LAMBDA q : q # query)
            IN  /\ Len(searchHistory') = (IF Len(rest) + 1 < 8 THEN Len(rest) + 1 ELSE 8)
                /\ searchHistory'[1] = query
                /\ \A i \in 2..Len(searchHistory') : searchHistory'[i] = rest[i - 1]
      ]_vars

\* C14 witness: a ninth query was submitted and the oldest entry is gone.
NinthQuerySubmitted ==
    /\ lastOp.name = "handleSearch"
    /\ Len(searchHistory) = 8
    /\ ~ArrIncludes(searchHistory, StoredHistory[8])

\* C15: a startup without a library snapshot seeds the library with the
\* first 5 records of the feed (all of a shorter feed); a startup with a
\* snapshot, an empty one too, sets the library to the snapshot.
SeededOnlyWithoutSnapshot ==
    [][lastOp'.name = "startup" =>
        IF storage.saved = Null
        THEN /\ Len(savedDatasets') = (IF Len(recommendedDatasets') < 5 THEN Len(recommendedDatasets') ELSE 5)
             /\ \A i \in 1..Len(savedDatasets') : savedDatasets'[i] = recommendedDatasets'[i]
        ELSE savedDatasets' = storage.saved[1]
      ]_vars

\* C15 witness: a startup has found the snapshot of an emptied library and
\* has left the library empty next to a feed with records.
StartedWithEmptySnapshot ==
    /\ lastOp.name = "startup"
    /\ lastOp.snapshot
    /\ savedDatasets = <<>>
    /\ recommendedDatasets # <<>>

\* C16: once the startup is over, a restart would load the library, the
\* named lists, the settings and the history that are in memory.
RestartRestoresMemory ==
    isInitialized =>
        /\ storage.saved = <<savedDatasets>>
        /\ customLists = (IF storage.lists # Null THEN storage.lists[1] ELSE <<>>)
        /\ settings = (IF storage.settings # Null THEN storage.settings[1] ELSE DEFAULT_SETTINGS)
        /\ searchHistory = (IF storage.history # Null THEN storage.history[1] ELSE <<>>)

\* ---------------------------------------------------------------------------
\* CSV export and the export/import round trip
\* ---------------------------------------------------------------------------

RECURSIVE Join(_, _)
\* Array.prototype.join
Join(parts, sep) ==
    IF parts = <<>> THEN <<>>
    ELSE IF Len(parts) = 1 THEN parts[1]
    ELSE parts[1] \o sep \o Join(Tail(parts), sep)

\* escapeCSV: an absent value is the empty string, quotes are doubled, the value is quoted
escapeCSV(str) ==
    LET value == IF str = Undefined THEN <<>> ELSE str
        sanitized == Cat([i \in 1..Len(value) |-> IF value[i] = "\"" THEN <<"\"", "\"">> ELSE <<value[i]>>])
    IN  <<"\"">> \o sanitized \o <<"\"">>

\* one row of handleExport: nine escaped fields joined by commas
ExportRow(d) ==
    Join(<<escapeCSV(d.title),
           escapeCSV(d.source),
           escapeCSV(IF d.authors = Undefined THEN Undefined ELSE Join(d.authors, <<",", " ">>)),
           escapeCSV(d.year),
           escapeCSV(d.paperLink),
           escapeCSV(d.githubLink),
           escapeCSV(d.itemCount),
           escapeCSV(d.specs),
           escapeCSV(d.description)>>, <<",">>)

\* the content of the exported file: byte-order mark, header line, one line per record
ExportCSV(library) ==
    LET headers == << <<"Title">>, <<"Source">>, <<"Authors">>, <<"Year">>, <<"Paper Link">>, <<"GitHub Link">>, <<"Item Count">>, <<"Specs">>, <<"Description">> >>
        rows == [i \in 1..Len(library) |-> ExportRow(library[i])]
    IN  <<"BOM">> \o Join(<<Join(headers, <<",">>)>> \o rows, <<"\n">>)

handleExport ==
    /\ activeTab = "saved"
    /\ downloads' = <<[text |-> ExportCSV(savedDatasets), library |-> savedDatasets]>>
    /\ lastOp' = [name |-> "handleExport"]
    /\ UNCHANGED sessionVars
    /\ UNCHANGED <<savedDatasets, recommendedDatasets, customLists, selectedForComparisonLinks, searchState, readers, now>>
    /\ UNCHANGED viewVars
    /\ Render
    /\ Persist

\* Stored libraries of the round trip: a record with every field present, a
\* title holding a comma and a double quote, a description holding a line
\* break, and a record without its optional fields.
RoundTripLibraries ==
    LET plain  == Dataset(<<"s-1">>, <<"t">>, ArXiv, << <<"A">>, <<"B">> >>, <<"2","0","2","0">>, <<"k","1">>, <<"g">>, <<"7">>, <<"s">>, <<"d">>, Undefined)
        quoted == Dataset(<<"s-2">>, <<"a", ",", "\"", "b">>, Other, << <<"A">> >>, <<"2","0","2","1">>, <<"k","2">>, <<"g">>, <<"7">>, <<"s">>, <<"d">>, Undefined)
        broken == Dataset(<<"s-3">>, <<"t">>, Other, << <<"A">> >>, <<"2","0","2","2">>, <<"k","3">>, <<"g">>, <<"7">>, <<"s">>, <<"x", "\n", "y">>, Undefined)
        bare   == Dataset(<<"s-4">>, <<"t">>, Other, Undefined, Undefined, <<"k","4">>, Undefined, Undefined, Undefined, <<"d">>, Undefined)
    IN  {<<plain>>, <<plain, quoted>>, <<broken>>, <<bare>>, <<quoted, bare>>}

InitRoundTrip ==
    /\ recommendedDatasets = FALLBACK_DATASETS
    /\ savedDatasets \in RoundTripLibraries
    /\ customLists = <<>>
    /\ activeListId = ListAll
    /\ activeTab = "saved"
    /\ selectedForComparisonLinks = <<>>
    /\ filterQuery = <<>>
    /\ sourceFilter = All
    /\ sortConfig = [field |-> "year", order |-> "desc"]
    /\ searchState = NoSearch
    /\ query = <<>>
    /\ searchHistory = <<>>
    /\ settings = DEFAULT_SETTINGS
    /\ progressInterval = Null
    /\ abortControllerRef = Null
    /\ timers = {}
    /\ calls = {}
    /\ started = 0
    /\ cancelled = {}
    /\ readers = <<>>
    /\ now = 0
    /\ displayItems = Rendered
    /\ downloads = <<>>
    /\ storage = StorageOf(savedDatasets, customLists, settings, searchHistory)
    /\ isInitialized = TRUE
    /\ lastOp = [name |-> "init"]

NextRoundTrip ==
    \/ handleExport
    \/ handleResetLibrary
    \/ \E k \in 1..Len(displayItems) : handleRemove(k)
    \/ downloads # <<>> /\ handleImport(downloads[1].text)
    \/ \E r \in 1..Len(readers) : ReaderOnload(r)

SpecRoundTrip == InitRoundTrip /\ [][NextRoundTrip]_vars

\* the same records up to the surrogate id, matched by natural key
SameModuloId(a, b) ==
    LET Fields(d) == [d EXCEPT !.id = Undefined]
        Has(x, l) == \E j \in 1..Len(l) : Fields(l[j]) = Fields(x)
    IN  /\ Len(a) = Len(b)
        /\ \A i \in 1..Len(a) : Has(a[i], b)
        /\ \A i \in 1..Len(b) : Has(b[i], a)

\* the step is the import of the exported file into an empty library
IsRoundTrip ==
    /\ lastOp'.name = "onload"
    /\ downloads # <<>>
    /\ savedDatasets = <<>>
    /\ \E r \in 1..Len(readers) :
          /\ readers[r].file = downloads[1].text
          /\ readers[r].savedDatasets = <<>>
          /\ Len(readers') = Len(readers) - 1
          /\ \A i \in 1..Len(readers') : readers'[i] = readers[IF i < r THEN i ELSE i + 1]

\* C17: importing the exported CSV into an empty library yields the records
\* that were exported, with equal field values, the id excepted.
CsvRoundTrip == [][IsRoundTrip => SameModuloId(savedDatasets', downloads[1].library)]_vars

\* the year read as an integer: its leading digits, 0 when it has none or is absent
RECURSIVE YearDigits(_, _)
YearDigits(str, acc) ==
    IF str = <<>> \/ Head(str) \notin {"0","1","2","3","4","5","6","7","8","9"} THEN acc
    ELSE YearDigits(Tail(str), 10 * acc + (CHOOSE n \in 0..9 : ToString(n) = Head(str)))

YearAsInteger(d) == IF d.year = Undefined THEN 0 ELSE YearDigits(d.year, 0)

\* C18: a view sorted by year is ordered by the years taken as integers (a
\* missing or non-numeric year counting as 0), in the chosen direction.
YearSortNumeric ==
    sortConfig.field = "year" =>
        \A i, j \in 1..Len(displayItems) :
            i < j => IF sortConfig.order = "asc"
                     THEN YearAsInteger(displayItems[i]) <= YearAsInteger(displayItems[j])
                     ELSE YearAsInteger(displayItems[i]) >= YearAsInteger(displayItems[j])

\* ---------------------------------------------------------------------------
\* Sorting the library and the feed
\* ---------------------------------------------------------------------------

\* A stored library with two titles equal ignoring case and two equal years
SortLibrary ==
    << Dataset(<<"s-1">>, <<"b">>, ArXiv, Undefined, <<"2","0","2","0">>, <<"k","1">>, Undefined, Undefined, Undefined, <<"d">>, Undefined),
       Dataset(<<"s-2">>, <<"a">>, ArXiv, Undefined, <<"2","0","2","1">>, <<"k","2">>, Undefined, Undefined, Undefined, <<"d">>, Undefined),
       Dataset(<<"s-3">>, <<"B">>, ArXiv, Undefined, <<"2","0","2","0">>, <<"k","3">>, Undefined, Undefined, Undefined, <<"d">>, Undefined) >>

InitSort ==
    /\ recommendedDatasets = FeedOfSix
    /\ savedDatasets = SortLibrary
    /\ customLists = <<>>
    /\ activeListId = ListAll
    /\ activeTab = "saved"
    /\ selectedForComparisonLinks = <<>>
    /\ filterQuery = <<>>
    /\ sourceFilter = All
    /\ sortConfig = [field |-> "year", order |-> "desc"]
    /\ searchState = NoSearch
    /\ query = <<>>
    /\ searchHistory = <<>>
    /\ settings = DEFAULT_SETTINGS
    /\ progressInterval = Null
    /\ abortControllerRef = Null
    /\ timers = {}
    /\ calls = {}
    /\ started = 0
    /\ cancelled = {}
    /\ readers = <<>>
    /\ now = 0
    /\ displayItems = Rendered
    /\ downloads = <<>>
    /\ storage = StorageOf(savedDatasets, customLists, settings, searchHistory)
    /\ isInitialized = TRUE
    /\ lastOp = [name |-> "init"]

NextSort ==
    \/ \E field \in {"title", "year"} : setSortConfig(field)
    \/ \E tab \in {"saved", "recommend"} : setActiveTab(tab)
    \/ \E k \in 1..Len(displayItems) : handleSave(k)
    \/ \E k \in 1..Len(displayItems) : handleRemove(k)

SpecSort == InitSort /\ [][NextSort]_vars

\* the collection the library view and the feed view are made of
SourceCollection == IF activeTab = "recommend" THEN recommendedDatasets ELSE savedDatasets

PositionIn(d, collection) == CHOOSE i \in 1..Len(collection) : collection[i].id = d.id

\* C19: in a sorted view, records of equal sort key stand in the order they
\* have in the source collection, in ascending and in descending order.
SortIsStable ==
    (activeTab # "discover" /\ activeListId = ListAll) =>
        \A i, j \in 1..Len(displayItems) :
            (i < j /\ SortKey(displayItems[i], sortConfig.field) = SortKey(displayItems[j], sortConfig.field))
                => PositionIn(displayItems[i], SourceCollection) < PositionIn(displayItems[j], SourceCollection)

\* a descending sort by title has just been chosen for a library that holds
\* two titles equal ignoring case and a third title
SortedEqualTitles ==
    /\ lastOp.name = "setSortConfig"
    /\ activeTab = "saved"
    /\ sortConfig = [field |-> "title", order |-> "desc"]
    /\ \E i, j, k \in 1..Len(displayItems) :
          /\ i < j
          /\ displayItems[i].title # displayItems[j].title
          /\ SortKey(displayItems[i], "title") = SortKey(displayItems[j], "title")
          /\ SortKey(displayItems[k], "title") # SortKey(displayItems[i], "title")

\* ---------------------------------------------------------------------------
\* Collections, from a startup that loads a stored collection
\* ---------------------------------------------------------------------------

\* a collection of an earlier session (created before this run's clock starts)
StoredList == [id |-> <<"list-", "s">>, name |-> <<"S">>, datasetIds |-> <<FALLBACK_DATASETS[1].id>>, createdAt |-> -1]

InitCollections ==
    /\ recommendedDatasets = FALLBACK_DATASETS
    /\ savedDatasets = SubSeq(FALLBACK_DATASETS, 1, 2)
    /\ customLists = <<StoredList>>
    /\ activeListId = ListAll
    /\ activeTab = "saved"
    /\ selectedForComparisonLinks = <<>>
    /\ filterQuery = <<>>
    /\ sourceFilter = All
    /\ sortConfig = [field |-> "year", order |-> "desc"]
    /\ searchState = NoSearch
    /\ query = <<>>
    /\ searchHistory = <<>>
    /\ settings = DEFAULT_SETTINGS
    /\ progressInterval = Null
    /\ abortControllerRef = Null
    /\ timers = {}
    /\ calls = {}
    /\ started = 0
    /\ cancelled = {}
    /\ readers = <<>>
    /\ now = 0
    /\ displayItems = Rendered
    /\ downloads = <<>>
    /\ storage = StorageOf(savedDatasets, customLists, settings, searchHistory)
    /\ isInitialized = TRUE
    /\ lastOp = [name |-> "init"]

NextCollections ==
    \/ \E name \in ListNames : createList(name)
    \/ \E l \in 1..Len(customLists) : deleteList(l)
    \/ \E id \in {ListAll} \cup {customLists[i].id : i \in 1..Len(customLists)} : setActiveListId(id)
    \/ \E k \in 1..Len(displayItems), l \in 1..Len(customLists) : toggleDatasetInList(k, l)
    \/ \E k \in 1..Len(displayItems) : toggleComparison(k)
    \/ \E k \in 1..Len(displayItems) : handleRemove(k)

SpecCollections == InitCollections /\ [][NextCollections]_vars

\* C20: New Collection with an empty name changes neither the lists nor the
\* library; with any other name it appends one list of that name with no
\* members and leaves the lists that exist and the library as they are.
CreateListContract ==
    [][lastOp'.name = "createList" =>
          /\ savedDatasets' = savedDatasets
          /\ IF lastOp'.given = <<>>
             THEN customLists' = customLists
             ELSE /\ Len(customLists') = Len(customLists) + 1
                  /\ SubSeq(customLists', 1, Len(customLists)) = customLists
                  /\ customLists'[Len(customLists')].name = lastOp'.given
                  /\ customLists'[Len(customLists')].datasetIds = <<>>]_vars

\* a collection has been created next to one that has members
CreatedNextToExisting ==
    /\ lastOp.name = "createList"
    /\ lastOp.given # <<>>
    /\ Len(customLists) = 2
    /\ customLists[1].datasetIds # <<>>
    /\ customLists[2].datasetIds = <<>>

\* ---------------------------------------------------------------------------
\* toggleDatasetInList as a function of its two ids
\* ---------------------------------------------------------------------------

\* toggleDatasetInList(datasetId, listId): the handler itself, for any pair of ids
toggleDatasetInListOf(datasetId, listId) ==
    /\ customLists' = ToggleInLists(customLists, datasetId, listId)
    /\ lastOp' = [name |-> "toggleDatasetInList", datasetId |-> datasetId]
    /\ UNCHANGED sessionVars
    /\ UNCHANGED <<savedDatasets, recommendedDatasets, selectedForComparisonLinks, searchState, readers, downloads, now>>
    /\ UNCHANGED viewVars
    /\ Render
    /\ Persist

NextToggle ==
    \/ \E i \in 1..Len(FALLBACK_DATASETS), l \in 1..Len(customLists) : toggleDatasetInListOf(FALLBACK_DATASETS[i].id, customLists[l].id)
    \/ \E name \in ListNames : createList(name)
    \/ \E id \in {ListAll} \cup {customLists[i].id : i \in 1..Len(customLists)} : setActiveListId(id)
    \/ \E k \in 1..Len(displayItems) : handleRemove(k)

SpecToggle == InitCollections /\ [][NextToggle]_vars

DeleteListFrame ==
    [][lastOp'.name = "deleteList" =>
          /\ Len(customLists') = Len(customLists) - 1
          /\ customLists' = SelectSeq(customLists, LAMBDA list : list.id # lastOp'.id)
          /\ savedDatasets' = savedDatasets
          /\ selectedForComparisonLinks' = selectedForComparisonLinks]_vars

\* a collection has been deleted while another one, with a member, and a
\* selection exist
DeletedNextToOther ==
    /\ lastOp.name = "deleteList"
    /\ Len(customLists) = 1
    /\ customLists[1].datasetIds # <<>>
    /\ selectedForComparisonLinks # <<>>

\* the step is the failure of the call of the search submitted last, which
\* was not cancelled
RunningSearchFails == lastOp'.name = "reject" /\ lastOp'.call = started /\ started \notin cancelled

\* C23: when the call of the running search fails, the search is over with
\* an error message and no results, no progress timer is live, and the
\* library, the lists and the selection are as before.
FailureEndsFailed ==
    [][RunningSearchFails =>
          /\ ~searchState'.isSearching
          /\ searchState'.error # Undefined
          /\ searchState'.results = <<>>
          /\ timers' = {}
          /\ savedDatasets' = savedDatasets
          /\ customLists' = customLists
          /\ selectedForComparisonLinks' = selectedForComparisonLinks]_vars

\* the running search has failed, which stopped its progress timer
RunningSearchFailed ==
    /\ lastOp.name = "reject"
    /\ lastOp.call = started
    /\ started \notin cancelled
    /\ lastOp.stopped = {started}
    /\ searchState.error # Undefined
    /\ savedDatasets # <<>>

\* C24 as claimed: after a search has failed, the search results are those
\* that were shown when it was submitted.
PriorResultsKept ==
    [][lastOp'.name = "reject" => searchState'.results = lastOp'.prior]_vars

\* C24: a failed search leaves the library as it was; the results of the
\* search before it are cleared when the search is submitted and the
\* results are empty after the failure.
PriorResultsCleared ==
    [][/\ lastOp'.name = "handleSearch" => (searchState'.results = <<>> /\ savedDatasets' = savedDatasets)
       /\ lastOp'.name = "reject" => (searchState'.results = <<>> /\ savedDatasets' = savedDatasets)]_vars

\* a search submitted over the results of a successful one has failed
FailedOverPriorResults ==
    /\ lastOp.name = "reject"
    /\ lastOp.call = started
    /\ lastOp.prior # <<>>
    /\ searchState.error # Undefined
    /\ searchState.results = <<>>

\* ---------------------------------------------------------------------------
\* A search that has been running for a while
\* ---------------------------------------------------------------------------

\* the first search of a run, submitted for "q", after 43 ticks of its timer
InitLateSearch ==
    /\ recommendedDatasets = FALLBACK_DATASETS
    /\ savedDatasets = FALLBACK_DATASETS
    /\ customLists = <<>>
    /\ activeListId = ListAll
    /\ activeTab = "discover"
    /\ selectedForComparisonLinks = <<>>
    /\ filterQuery = <<>>
    /\ sourceFilter = All
    /\ sortConfig = [field |-> "year", order |-> "desc"]
    /\ searchState = [isSearching |-> TRUE, results |-> <<>>, error |-> Undefined, progress |-> 91, status |-> SEARCH_STATUSES[6]]
    /\ query = <<"q">>
    /\ searchHistory = << <<"q">> >>
    /\ settings = DEFAULT_SETTINGS
    /\ progressInterval = <<1>>
    /\ abortControllerRef = <<[id |-> 1, aborted |-> FALSE]>>
    /\ timers = {1}
    /\ calls = {[id |-> 1, query |-> <<"q">>, model |-> settings.model, prior |-> <<>>]}
    /\ started = 1
    /\ cancelled = {}
    /\ readers = <<>>
    /\ now = 0
    /\ displayItems = Rendered
    /\ downloads = <<>>
    /\ storage = StorageOf(savedDatasets, customLists, settings, searchHistory)
    /\ isInitialized = TRUE
    /\ lastOp = [name |-> "tick", timer |-> 1]

SpecProgress == InitLateSearch /\ [][NextSearch]_vars

\* C25: the progress of a search starts at 5, does not decrease from one
\* tick to the next and stays below 100 while the search runs; it becomes
\* 100 only when a retrieval call returns, and then the records returned are
\* the search results.
ProgressDiscipline ==
    [][/\ lastOp'.name = "handleSearch" => searchState'.progress = 5
       /\ lastOp'.name = "tick" => searchState'.progress >= searchState.progress
       /\ searchState'.isSearching => (searchState'.progress >= 5 /\ searchState'.progress < 100)
       /\ (searchState'.progress = 100 /\ searchState.progress # 100) => lastOp'.name = "resolve"
       /\ (lastOp'.name = "resolve" /\ searchState'.progress = 100)
             => (~searchState'.isSearching /\ searchState'.results = lastOp'.returned)]_vars

\* the timer has ticked with the progress at its cap
ProgressAtCap ==
    /\ lastOp.name = "tick"
    /\ searchState.isSearching
    /\ searchState.progress = 95

\* the step is the onload of a reader of the given kind, which read file
OnloadOf(kind, file) ==
    /\ lastOp'.name = "onload"
    /\ lastOp'.kind = kind
    /\ \E r \in 1..Len(readers) :
          /\ readers[r].kind = kind
          /\ readers[r].file = file
          /\ Len(readers') = Len(readers) - 1
          /\ \A i \in 1..Len(readers') : readers'[i] = readers[IF i < r THEN i ELSE i + 1]

\* the records a step has appended to the library
Appended == SubSeq(savedDatasets', Len(savedDatasets) + 1, Len(savedDatasets'))

\* the step keeps the library's records at their places and appends records
\* with ids and paper links the library did not hold
AppendsFresh ==
    /\ Len(savedDatasets') >= Len(savedDatasets)
    /\ SubSeq(savedDatasets', 1, Len(savedDatasets)) = savedDatasets
    /\ \A j \in 1..Len(Appended) :
          /\ Appended[j].paperLink \notin Range(Links(savedDatasets))
          /\ \A i \in 1..Len(savedDatasets) : savedDatasets[i].id # Appended[j].id

\* C26: a CSV import keeps every record of the library at its place, skips
\* the rows whose paper link the library holds and the rows of fewer than 5
\* columns, and appends each other row as a record with a new id.
CsvAppendOnly ==
    [][\A file \in CsvFiles :
          OnloadOf("csv", file) =>
              /\ AppendsFresh
              /\ Appended = CsvImported(file, Range(Links(savedDatasets)), now)]_vars

\* the entries of a JSON file that have a title and a paper link which is
\* none of links
Acceptable(file, links) ==
    IF ~file.parses \/ ~file.isArray THEN <<>>
    ELSE SelectSeq(file.data, LAMBDA item : /\ ~Falsy(Prop(item, "title"))
                                            /\ ~Falsy(Prop(item, "paperLink"))
                                            /\ Prop(item, "paperLink") \notin links)

\* C27: a JSON import appends, in the order of the file, exactly the entries
\* that have a title and a paper link which the library does not hold, each
\* with a new id and its other fields as they are in the file.
JsonAcceptsExactly ==
    [][\A file \in JsonFiles :
          OnloadOf("json", file) =>
              LET accepted == Acceptable(file, Range(Links(savedDatasets)))
              IN  /\ AppendsFresh
                  /\ Len(Appended) = Len(accepted)
                  /\ \A j \in 1..Len(accepted) :
                        \A field \in DOMAIN accepted[j] \ {"id"} : Appended[j][field] = accepted[j][field]]_vars

\* imports into a library with a collection and a selection
NextImportOnly ==
    \/ \E file \in CsvFiles : handleImport(file)
    \/ \E file \in JsonFiles : handleImportJSON(file)
    \/ \E r \in 1..Len(readers) : ReaderOnload(r)
    \/ \E k \in 1..Len(displayItems) : toggleComparison(k)

SpecImportOnly == InitCollections /\ [][NextImportOnly]_vars

\* C28: the import of a file that is structurally invalid (JSON text that
\* does not parse or is no array, CSV text without a data line) changes
\* neither the library nor the lists, the selection or the search state.
InvalidImportIsNoOp ==
    [][(lastOp'.name = "onload" /\ ~lastOp'.parsed) =>
          /\ savedDatasets' = savedDatasets
          /\ customLists' = customLists
          /\ selectedForComparisonLinks' = selectedForComparisonLinks
          /\ searchState' = searchState]_vars

\* a CSV file without a data line has been read while the library, a
\* collection and the selection hold something
InvalidCsvRead ==
    /\ lastOp.name = "onload"
    /\ lastOp.kind = "csv"
    /\ ~lastOp.parsed
    /\ savedDatasets # <<>>
    /\ customLists # <<>>
    /\ selectedForComparisonLinks # <<>>

\* C29: when the feed cannot be fetched or is no array, the feed is the three
\* fallback records, no error is shown, and the startup completes with the
\* stored library, lists, settings and history loaded.
FeedFailureFallsBack ==
    [][(lastOp'.name = "startup" /\ ~lastOp'.fetched) =>
          /\ recommendedDatasets' = FALLBACK_DATASETS
          /\ Len(recommendedDatasets') = 3
          /\ searchState'.error = Undefined
          /\ isInitialized'
          /\ storage.saved # Null => savedDatasets' = storage.saved[1]
          /\ storage.lists # Null => customLists' = storage.lists[1]
          /\ storage.settings # Null => settings' = storage.settings[1]
          /\ storage.history # Null => searchHistory' = storage.history[1]]_vars

\* a startup whose fetch failed has loaded a stored library, a stored list
\* and stored settings
StartedOnFallback ==
    /\ lastOp.name = "startup"
    /\ ~lastOp.fetched
    /\ lastOp.snapshot
    /\ savedDatasets # <<>>
    /\ customLists # <<>>
    /\ settings # DEFAULT_SETTINGS

\* ---------------------------------------------------------------------------
\* The ids of saved records, with Math.random() as an input
\* ---------------------------------------------------------------------------

\* what Math.random().toString(36).substr(2, 5) can come to
RandomStrings == {"r1", "r2"}

\* items.forEach(item => handleSave(item)) at time t, the j-th call drawing draws[j]
RECURSIVE SaveEachDrawing(_, _, _, _, _)
SaveEachDrawing(prev, items, t, draws, j) ==
    IF items = <<>> THEN prev
    ELSE SaveEachDrawing(SaveUpdater(prev, Head(items), <<"saved-", ToString(t), "-", draws[j]>>), Tail(items), t, draws, j + 1)

\* 'Add n to My Library' with the draws of its calls of handleSave
handleSaveSelectedDrawing(draws) ==
    /\ BulkControlsShown
    /\ \E i \in 1..Len(displayItems) : ArrIncludes(selectedForComparisonLinks, displayItems[i].paperLink)
    /\ now < MaxNow
    /\ savedDatasets' = SaveEachDrawing(savedDatasets, VisibleSelectedItems(displayItems, selectedForComparisonLinks), now, draws, 1)
    /\ Len(savedDatasets') <= MaxSaved
    /\ selectedForComparisonLinks' = SaveSelectedSelection(activeTab, selectedForComparisonLinks, displayItems)
    /\ now' = now + 1
    /\ lastOp' = [name |-> "handleSaveSelected", added |-> Len(savedDatasets') - Len(savedDatasets),
                  existing |-> \E i \in 1..Len(displayItems), j \in 1..Len(savedDatasets) :
                                  /\ ArrIncludes(selectedForComparisonLinks, displayItems[i].paperLink)
                                  /\ savedDatasets[j].paperLink = displayItems[i].paperLink
                                  /\ savedDatasets[j].title # displayItems[i].title]
    /\ UNCHANGED sessionVars
    /\ UNCHANGED <<recommendedDatasets, customLists, searchState, readers, downloads>>
    /\ UNCHANGED viewVars
    /\ Render
    /\ Persist

NextIds ==
    \/ \E tab \in {"saved", "recommend", "discover"} : setActiveTab(tab)
    \/ toggleSelectAllVisible
    \/ \E draws \in [1..3 -> RandomStrings] : handleSaveSelectedDrawing(draws)
    \/ \E k \in 1..Len(displayItems) : handleRemove(k)

SpecIds == InitAfterSearch /\ [][NextIds]_vars

\* C30: no two records of the library have the same id.
SurrogateIdsUnique == NoDuplicates([i \in 1..Len(savedDatasets) |-> savedDatasets[i].id])

\* C31: a toggle issued from a card flips the membership of the card's paper
\* link in the selection: the record is selected after it exactly when it
\* was not selected before.
ToggleFlipsCardKey ==
    [][lastOp'.name = "toggleComparison" =>
          (ArrIncludes(selectedForComparisonLinks', lastOp'.card) <=> ~ArrIncludes(selectedForComparisonLinks, lastOp'.card))]_vars

\* C32: the search results hold no two records with the same paper link.
ResultsKeysUnique == NoDuplicates(Links(searchState.results))

\* C33: an import appends no record whose paper link the library holds when
\* the file has been read, whatever was saved while it was being read.
ImportSkipsSavedMeanwhile ==
    [][lastOp'.name = "onload" =>
          \A j \in 1..Len(Appended) : Appended[j].paperLink \notin Range(Links(savedDatasets))]_vars

\* C34: what the library, the named lists, the settings or the history were
\* changed to before the startup has loaded is still in memory when the
\* loading completes, and is in storage then.
PendingMutationSurvives ==
    [][lastOp'.name = "startup" =>
          /\ (savedDatasets # <<>> => savedDatasets' = savedDatasets /\ storage'.saved = <<savedDatasets>>)
          /\ (customLists # <<>> => customLists' = customLists /\ storage'.lists = <<customLists>>)
          /\ (settings # DEFAULT_SETTINGS => settings' = settings /\ storage'.settings = <<settings>>)
          /\ (searchHistory # <<>> => searchHistory' = searchHistory /\ storage'.history = <<searchHistory>>)]_vars

\* C35: while a search is running the results are empty, no error message is
\* present and the progress is between 5 and 95; while an error message is
\* present no search is running and the results are empty.
RunningSearchShape ==
    /\ searchState.isSearching =>
          /\ searchState.results = <<>>
          /\ searchState.error = Undefined
          /\ searchState.progress >= 5
          /\ searchState.progress <= 95
    /\ searchState.error # Undefined =>
          /\ ~searchState.isSearching
          /\ searchState.results = <<>>

\* a second search is running, its progress past the first tick
SecondSearchRunning ==
    /\ searchState.isSearching
    /\ started = 2
    /\ searchState.progress > 5
    /\ lastOp.name = "tick"

\* C36: the active list id is 'all' or the id of a named list that exists.
ActiveListExists ==
    \/ activeListId = ListAll
    \/ \E i \in 1..Len(customLists) : customLists[i].id = activeListId

\* ---------------------------------------------------------------------------
\* 'Clear All Data' after a search, with a named list and a selection
\* ---------------------------------------------------------------------------

NextReset ==
    \/ \E tab \in {"saved", "recommend", "discover"} : setActiveTab(tab)
    \/ \E id \in {ListAll} \cup {customLists[i].id : i \in 1..Len(customLists)} : setActiveListId(id)
    \/ createList(<<"A">>)
    \/ \E k \in 1..Len(displayItems) : toggleComparison(k)
    \/ \E k \in 1..Len(displayItems) : handleSave(k)
    \/ handleResetLibrary
    \/ handleResetLibraryDeclined

SpecReset == InitAfterSearch /\ [][NextReset]_vars

\* C37: a confirmed clearing empties the library, the named lists and the
\* selection and sets the active list to 'all', and leaves the search
\* results, the feed, the history and the settings as they are; a declined
\* clearing changes nothing.
ResetLibraryFrame ==
    [][/\ lastOp'.name = "handleResetLibrary" =>
             /\ savedDatasets' = <<>>
             /\ customLists' = <<>>
             /\ selectedForComparisonLinks' = <<>>
             /\ activeListId' = ListAll
             /\ UNCHANGED <<searchState, recommendedDatasets, searchHistory, settings>>
       /\ lastOp'.name = "handleResetLibraryDeclined" =>
             UNCHANGED <<savedDatasets, recommendedDatasets, customLists, activeListId, activeTab, selectedForComparisonLinks, filterQuery, sourceFilter, sortConfig, searchState, query, searchHistory, settings, displayItems, storage>>]_vars

\* a library, a named list and a selection were cleared next to search results
ClearedAllThree ==
    /\ lastOp.name = "handleResetLibrary"
    /\ lastOp.cleared[1] > 0
    /\ lastOp.cleared[2] > 0
    /\ lastOp.cleared[3] > 0
    /\ searchState.results # <<>>
    /\ searchHistory # <<>>

\* ---------------------------------------------------------------------------
\* The comparison list
\* ---------------------------------------------------------------------------

\* a Map filled in feed, results, library order in which the first record set
\* under a key stays
allAvailableDatasetsFirstWins ==
    LET all == recommendedDatasets \o searchState.results \o savedDatasets
    IN  [link \in Range(Links(all)) |->
            all[CHOOSE i \in 1..Len(all) : /\ all[i].paperLink = link
                                           /\ \A j \in 1..Len(all) : all[j].paperLink = link => j >= i]]

\* the Map of every record by its paper link: feed, results and library are
\* set in this order, a later map.set replaces the record set before
allAvailableDatasetsByLink ==
    LET all == recommendedDatasets \o searchState.results \o savedDatasets
    IN  [link \in Range(Links(all)) |->
            all[CHOOSE i \in 1..Len(all) : /\ all[i].paperLink = link
                                           /\ \A j \in 1..Len(all) : all[j].paperLink = link => j <= i]]

\* selectedForComparisonLinks.map(link => map.get(link)).filter(d => !!d)
comparisonItems ==
    LET found == SelectSeq(selectedForComparisonLinks, LAMBDA link : link \in DOMAIN allAvailableDatasetsByLink)
    IN  [i \in 1..Len(found) |-> allAvailableDatasetsByLink[found[i]]]

\* C38: the comparison list holds one record for each selected key that has a
\* record in the feed, the results or the library and nothing else; the
\* record is the library's if the library has the key, else the results',
\* else the feed's.
ComparisonDerivation ==
    \A items \in {comparisonItems} :
        /\ NoDuplicates(Links(items))
        /\ \A i \in 1..Len(items) :
              /\ ArrIncludes(selectedForComparisonLinks, items[i].paperLink)
              /\ LiveLink(items[i].paperLink)
              /\ IF ArrIncludes(Links(savedDatasets), items[i].paperLink)
                 THEN ArrIncludes(savedDatasets, items[i])
                 ELSE IF ArrIncludes(Links(searchState.results), items[i].paperLink)
                      THEN ArrIncludes(searchState.results, items[i])
                      ELSE ArrIncludes(recommendedDatasets, items[i])
        /\ \A k \in 1..Len(selectedForComparisonLinks) :
              LiveLink(selectedForComparisonLinks[k]) <=> ArrIncludes(Links(items), selectedForComparisonLinks[k])
        /\ Len(items) = Cardinality({k \in 1..Len(selectedForComparisonLinks) : LiveLink(selectedForComparisonLinks[k])})

\* a selected key has a record among the results and another in the library
SelectedInResultsAndLibrary ==
    \E k \in 1..Len(selectedForComparisonLinks) :
        /\ \E i \in 1..Len(searchState.results) :
              /\ searchState.results[i].paperLink = selectedForComparisonLinks[k]
              /\ ~ArrIncludes(savedDatasets, searchState.results[i])
        /\ ArrIncludes(Links(savedDatasets), selectedForComparisonLinks[k])
        /\ Len(comparisonItems) > 0

=============================================================================
